---- MODULE Spec2Model ----
(***************************************************************************)
(* A state-machine model of the mc6809-core emulator: the Cpu object       *)
(* (src/src/cpu.rs), its opcode pages (src/src/cpu/opcodes), the indexed   *)
(* addressing decoder (src/src/addressing.rs), the ALU (src/src/alu.rs),   *)
(* the register file (src/src/registers.rs) and a flat-RAM Bus             *)
(* (src/src/bus.rs, src/src/tests/cpu_tests.rs).                           *)
(*                                                                         *)
(* A machine value m is a record [cpu, bus, log]: cpu is the Cpu struct,   *)
(* bus the memory behind the Bus trait and log the sequence of bus         *)
(* accesses made so far by the running call.  Every Rust function that     *)
(* takes `&mut Cpu` and a bus is an operator from machine values to        *)
(* machine values (or to a record [m, val] when it also returns a value).  *)
(***************************************************************************)
EXTENDS Integers, Sequences, FiniteSets, TLC

VARIABLES cpu, bus, obs, call

vars == <<cpu, bus, obs, call>>

(***************************************************************************)
(* Bounds of the model.                                                    *)
(***************************************************************************)
\* host step calls are made only while cycles is below this cap
MaxCycles == 50
\* number of reset / set_irq / set_firq / trigger_nmi calls the host makes
MaxEvents == 3
\* largest cycle budget the host passes to run
MaxBudget == 3

(***************************************************************************)
(* Fixed-width arithmetic.                                                 *)
(***************************************************************************)
U8 == 256
U16 == 65536

Wrap8(n) == n % U8
Wrap16(n) == n % U16

RECURSIVE BitAnd(_, _)
BitAnd(a, b) ==
    IF a = 0 \/ b = 0 THEN 0
    ELSE (a % 2) * (b % 2) + 2 * BitAnd(a \div 2, b \div 2)

RECURSIVE BitOr(_, _)
BitOr(a, b) ==
    IF a = 0 THEN b
    ELSE IF b = 0 THEN a
    ELSE (IF (a % 2) + (b % 2) > 0 THEN 1 ELSE 0) + 2 * BitOr(a \div 2, b \div 2)

RECURSIVE BitXor(_, _)
BitXor(a, b) ==
    IF a = 0 THEN b
    ELSE IF b = 0 THEN a
    ELSE (((a % 2) + (b % 2)) % 2) + 2 * BitXor(a \div 2, b \div 2)

\* `mask` is a single bit: TRUE iff that bit of v is set
TestBit(v, mask) == (v \div mask) % 2 = 1

\* `as i8 as i16 as u16`
SignExt8(b) == IF b >= 128 THEN b + 65280 ELSE b

Hi(w) == w \div 256
Lo(w) == w % 256

(***************************************************************************)
(* registers.rs: condition codes and the register file.                    *)
(***************************************************************************)
CC_C == 1
CC_V == 2
CC_Z == 4
CC_N == 8
CC_I == 16
CC_H == 32
CC_F == 64
CC_E == 128

carry(cc) == TestBit(cc, CC_C)
overflow(cc) == TestBit(cc, CC_V)
zero(cc) == TestBit(cc, CC_Z)
negative(cc) == TestBit(cc, CC_N)
irq_inhibit(cc) == TestBit(cc, CC_I)
half_carry(cc) == TestBit(cc, CC_H)
firq_inhibit(cc) == TestBit(cc, CC_F)
entire(cc) == TestBit(cc, CC_E)

set_bit(cc, mask, v) ==
    IF v THEN (IF TestBit(cc, mask) THEN cc ELSE cc + mask)
    ELSE (IF TestBit(cc, mask) THEN cc - mask ELSE cc)

set_carry(cc, v) == set_bit(cc, CC_C, v)
set_overflow(cc, v) == set_bit(cc, CC_V, v)
set_zero(cc, v) == set_bit(cc, CC_Z, v)
set_negative(cc, v) == set_bit(cc, CC_N, v)
set_irq_inhibit(cc, v) == set_bit(cc, CC_I, v)
set_half_carry(cc, v) == set_bit(cc, CC_H, v)
set_firq_inhibit(cc, v) == set_bit(cc, CC_F, v)
set_entire(cc, v) == set_bit(cc, CC_E, v)

set_nz8(cc, val) == set_zero(set_negative(cc, val >= 128), val = 0)
set_nz16(cc, val) == set_zero(set_negative(cc, val >= 32768), val = 0)

or_with(cc, mask) == BitOr(cc, mask)
and_with(cc, mask) == BitAnd(cc, mask)

\* Registers::new
Registers_new == [d |-> 0, x |-> 0, y |-> 0, u |-> 0, s |-> 0, pc |-> 0,
                  dp |-> 0, cc |-> 0]

reg_a(reg) == Hi(reg.d)
reg_b(reg) == Lo(reg.d)
set_a(reg, val) == [reg EXCEPT !.d = Lo(reg.d) + 256 * val]
set_b(reg, val) == [reg EXCEPT !.d = 256 * Hi(reg.d) + val]

(***************************************************************************)
(* The bus: 64 KiB of flat RAM (the FlatRam of the crate example and the   *)
(* TestBus of the tests).  A bus value is [img, ram]: img is the memory    *)
(* image the host loaded before reset, ram the bytes written since.  An    *)
(* image is [org, code, vecs, fill]: the bytes `code` at `org`, the seven  *)
(* vectors 0xFFF2..0xFFFF in `vecs`, and `fill` everywhere else.           *)
(***************************************************************************)
VEC_RESET == 65534
VEC_NMI == 65532
VEC_SWI == 65530
VEC_IRQ == 65528
VEC_FIRQ == 65526
VEC_SWI2 == 65524
VEC_SWI3 == 65522

ImageByte(img, addr) ==
    IF addr >= img.org /\ addr < img.org + Len(img.code)
    THEN img.code[addr - img.org + 1]
    ELSE IF addr >= VEC_SWI3 THEN img.vecs[addr - VEC_SWI3 + 1]
    ELSE img.fill

\* TestBus::read / FlatRam::read without the access log
mem_read(b, addr) ==
    IF addr \in DOMAIN b.ram THEN b.ram[addr] ELSE ImageByte(b.img, addr)

\* TestBus::write / FlatRam::write without the access log
mem_write(b, addr, val) ==
    [b EXCEPT !.ram = [a \in (DOMAIN b.ram) \cup {addr} |->
                          IF a = addr THEN val ELSE b.ram[a]]]

\* Bus::read
read(m, addr) ==
    [m |-> [m EXCEPT !.log = Append(@, <<"r", addr, mem_read(m.bus, addr)>>)],
     val |-> mem_read(m.bus, addr)]

\* Bus::write
write(m, addr, val) ==
    [m EXCEPT !.bus = mem_write(@, addr, val),
              !.log = Append(@, <<"w", addr, val>>)]

\* Bus::read_word
read_word(m, addr) ==
    LET hi == read(m, addr)
        lo == read(hi.m, Wrap16(addr + 1))
    IN [m |-> lo.m, val |-> 256 * hi.val + lo.val]

\* write_word storing the low byte at addr
write_word_low_first(m, addr, val) ==
    write(write(m, addr, Lo(val)), Wrap16(addr + 1), Hi(val))

\* Bus::write_word
write_word(m, addr, val) ==
    write(write(m, addr, Hi(val)), Wrap16(addr + 1), Lo(val))

(***************************************************************************)
(* cpu.rs: stack, fetch and addressing helpers.                            *)
(***************************************************************************)
push_byte_s(m, val) ==
    LET s1 == Wrap16(m.cpu.reg.s - 1 + U16)
    IN write([m EXCEPT !.cpu.reg.s = s1], s1, val)

push_word_s(m, val) == push_byte_s(push_byte_s(m, Lo(val)), Hi(val))

pull_byte_s(m) ==
    LET r == read(m, m.cpu.reg.s)
    IN [m |-> [r.m EXCEPT !.cpu.reg.s = Wrap16(@ + 1)], val |-> r.val]

pull_word_s(m) ==
    LET hi == pull_byte_s(m)
        lo == pull_byte_s(hi.m)
    IN [m |-> lo.m, val |-> 256 * hi.val + lo.val]

push_byte_u(m, val) ==
    LET u1 == Wrap16(m.cpu.reg.u - 1 + U16)
    IN write([m EXCEPT !.cpu.reg.u = u1], u1, val)

push_word_u(m, val) == push_byte_u(push_byte_u(m, Lo(val)), Hi(val))

pull_byte_u(m) ==
    LET r == read(m, m.cpu.reg.u)
    IN [m |-> [r.m EXCEPT !.cpu.reg.u = Wrap16(@ + 1)], val |-> r.val]

pull_word_u(m) ==
    LET hi == pull_byte_u(m)
        lo == pull_byte_u(hi.m)
    IN [m |-> lo.m, val |-> 256 * hi.val + lo.val]

\* a register by name; "a" and "b" are the halves of D
get_r(c, r) ==
    CASE r = "a" -> reg_a(c.reg)
      [] r = "b" -> reg_b(c.reg)
      [] OTHER -> c.reg[r]

put_r(m, r, v) ==
    CASE r = "a" -> [m EXCEPT !.cpu.reg = set_a(@, v)]
      [] r = "b" -> [m EXCEPT !.cpu.reg = set_b(@, v)]
      [] OTHER -> [m EXCEPT !.cpu.reg[r] = v]

Wide(r) == r \in {"d", "x", "y", "u", "s", "pc"}

\* `self.push_word_s(bus, self.reg.r)` / `self.push_byte_s(bus, self.reg.r)`
push_r_s(m, r) ==
    IF Wide(r) THEN push_word_s(m, get_r(m.cpu, r))
    ELSE push_byte_s(m, get_r(m.cpu, r))

push_r_u(m, r) ==
    IF Wide(r) THEN push_word_u(m, get_r(m.cpu, r))
    ELSE push_byte_u(m, get_r(m.cpu, r))

\* `self.reg.r = value just read`: p is the [m, val] of a read, pull or fetch
put_val(p, r) == put_r(p.m, r, p.val)

\* `self.reg.r = self.pull_word_s(bus)` / `... = self.pull_byte_s(bus)`
pull_r_s(m, r) ==
    IF Wide(r) THEN put_val(pull_word_s(m), r) ELSE put_val(pull_byte_s(m), r)

pull_r_u(m, r) ==
    IF Wide(r) THEN put_val(pull_word_u(m), r) ELSE put_val(pull_byte_u(m), r)

push_entire_state(m) ==
    push_r_s(push_r_s(push_r_s(push_r_s(push_r_s(push_r_s(push_r_s(push_r_s(
        m, "pc"), "u"), "y"), "x"), "dp"), "b"), "a"), "cc")

add_cycles(m, n) == [m EXCEPT !.cpu.cycles = @ + n]

fetch_byte(m) ==
    LET r == read(m, m.cpu.reg.pc)
    IN [m |-> [r.m EXCEPT !.cpu.reg.pc = Wrap16(@ + 1)], val |-> r.val]

fetch_word(m) ==
    LET hi == fetch_byte(m)
        lo == fetch_byte(hi.m)
    IN [m |-> lo.m, val |-> 256 * hi.val + lo.val]

addr_direct(m) ==
    LET lo == fetch_byte(m)
    IN [m |-> lo.m, val |-> 256 * lo.m.cpu.reg.dp + lo.val]

addr_extended(m) == fetch_word(m)

addr_relative8(m) ==
    LET f == fetch_byte(m)
    IN [m |-> f.m, val |-> Wrap16(f.m.cpu.reg.pc + SignExt8(f.val))]

\* addr_relative16 adding the offset to the PC before the offset bytes
addr_relative16_early(m) ==
    [m |-> fetch_word(m).m, val |-> Wrap16(m.cpu.reg.pc + fetch_word(m).val)]

addr_relative16(m) ==
    LET f == fetch_word(m)
    IN [m |-> f.m, val |-> Wrap16(f.m.cpu.reg.pc + f.val)]

arm_nmi(m) == [m EXCEPT !.cpu.nmi_armed = TRUE]

(***************************************************************************)
(* addressing.rs: the indexed post-byte decoder.  indexed(m) is            *)
(* [m, ea, extra].                                                         *)
(***************************************************************************)
index_reg(c, post) ==
    CASE (post \div 32) % 4 = 0 -> c.reg.x
      [] (post \div 32) % 4 = 1 -> c.reg.y
      [] (post \div 32) % 4 = 2 -> c.reg.u
      [] (post \div 32) % 4 = 3 -> c.reg.s

set_index_reg(m, post, val) ==
    CASE (post \div 32) % 4 = 0 -> [m EXCEPT !.cpu.reg.x = val]
      [] (post \div 32) % 4 = 1 -> [m EXCEPT !.cpu.reg.y = val]
      [] (post \div 32) % 4 = 2 -> [m EXCEPT !.cpu.reg.u = val]
      [] (post \div 32) % 4 = 3 -> arm_nmi([m EXCEPT !.cpu.reg.s = val])

\* the `match mode` of indexed, for bit 7 of the post-byte set and not the
\* early-returning extended indirect arm: [m, ea, extra]
indexed_mode(m, post) ==
    LET mode == post % 16
        reg == index_reg(m.cpu, post)
    IN CASE mode = 0 ->
              [m |-> set_index_reg(m, post, Wrap16(reg + 1)), ea |-> reg, extra |-> 2]
         [] mode = 1 ->
              [m |-> set_index_reg(m, post, Wrap16(reg + 2)), ea |-> reg, extra |-> 3]
         [] mode = 2 ->
              [m |-> set_index_reg(m, post, Wrap16(reg - 1 + U16)),
               ea |-> Wrap16(reg - 1 + U16), extra |-> 2]
         [] mode = 3 ->
              [m |-> set_index_reg(m, post, Wrap16(reg - 2 + U16)),
               ea |-> Wrap16(reg - 2 + U16), extra |-> 3]
         [] mode = 4 -> [m |-> m, ea |-> reg, extra |-> 0]
         [] mode = 5 ->
              [m |-> m, ea |-> Wrap16(reg + SignExt8(reg_b(m.cpu.reg))), extra |-> 1]
         [] mode = 6 ->
              [m |-> m, ea |-> Wrap16(reg + SignExt8(reg_a(m.cpu.reg))), extra |-> 1]
         [] mode = 8 ->
              LET f == fetch_byte(m)
              IN [m |-> f.m, ea |-> Wrap16(reg + SignExt8(f.val)), extra |-> 1]
         [] mode = 9 ->
              LET f == fetch_word(m)
              IN [m |-> f.m, ea |-> Wrap16(reg + f.val), extra |-> 4]
         [] mode = 11 -> [m |-> m, ea |-> Wrap16(reg + m.cpu.reg.d), extra |-> 4]
         [] mode = 12 ->
              LET f == fetch_byte(m)
              IN [m |-> f.m, ea |-> Wrap16(f.m.cpu.reg.pc + SignExt8(f.val)),
                  extra |-> 1]
         [] mode = 13 ->
              LET f == fetch_word(m)
              IN [m |-> f.m, ea |-> Wrap16(f.m.cpu.reg.pc + f.val), extra |-> 5]
         [] OTHER -> [m |-> m, ea |-> 0, extra |-> 0]

\* `let ptr = bus.read_word(ea); (ptr, extra)`: ptr is the [m, val] read
indexed_ptr(ptr, extra) == [m |-> ptr.m, ea |-> ptr.val, extra |-> extra]

\* the `if indirect` charging nothing for the dereference
indexed_indirect_free(r, post) ==
    IF TestBit(post, 16)
    THEN indexed_ptr(read_word(r.m, r.ea), r.extra)
    ELSE r

\* the `if indirect` that follows the match: r is the [m, ea, extra] of it
indexed_indirect(r, post) ==
    IF TestBit(post, 16)
    THEN indexed_ptr(read_word(r.m, r.ea), r.extra + 3)
    ELSE r

\* `read_word` at the address just fetched: f is the [m, val] of the fetch
read_word_at(f) == read_word(f.m, f.val)

\* indexed after its post-byte fetch
indexed_post(m, post) ==
    IF ~TestBit(post, 128)
    THEN [m |-> m,
          ea |-> Wrap16(index_reg(m.cpu, post)
                        + (IF TestBit(post, 16)
                           THEN 65280 + BitOr(post, 224)
                           ELSE post % 32)),
          extra |-> 1]
    ELSE IF post % 16 = 15 /\ TestBit(post, 16)
    THEN indexed_ptr(read_word_at(fetch_word(m)), 5)
    ELSE indexed_indirect(indexed_mode(m, post), post)

\* p is the [m, val] of the post-byte fetch
indexed_fetched(p) == indexed_post(p.m, p.val)

indexed(m) == indexed_fetched(fetch_byte(m))

addr_indexed(m) == indexed(m)

(***************************************************************************)
(* alu.rs.  Every operation is [val, cc]: the result and the new flags.    *)
(***************************************************************************)
\* add8 leaving the half-carry flag as it was
add8_keeps_half(a, b, cc) ==
    LET r16 == a + b
        result == r16 % U8
        c2 == set_negative(cc, BitAnd(result, 128) # 0)
        c3 == set_zero(c2, result = 0)
        c4 == set_overflow(c3,
                  BitAnd(BitAnd(BitXor(a, result), BitXor(b, result)), 128) # 0)
    IN [val |-> result, cc |-> set_carry(c4, r16 > 255)]

add8(a, b, cc) ==
    LET r16 == a + b
        result == r16 % U8
        c1 == set_half_carry(cc, BitAnd(BitXor(BitXor(a, b), result), 16) # 0)
        c2 == set_negative(c1, BitAnd(result, 128) # 0)
        c3 == set_zero(c2, result = 0)
        c4 == set_overflow(c3,
                  BitAnd(BitAnd(BitXor(a, result), BitXor(b, result)), 128) # 0)
    IN [val |-> result, cc |-> set_carry(c4, r16 > 255)]

adc8(a, b, cc) ==
    LET c == IF carry(cc) THEN 1 ELSE 0
        r16 == a + b + c
        result == r16 % U8
        c1 == set_half_carry(cc, BitAnd(BitXor(BitXor(a, b), result), 16) # 0)
        c2 == set_negative(c1, BitAnd(result, 128) # 0)
        c3 == set_zero(c2, result = 0)
        c4 == set_overflow(c3,
                  BitAnd(BitAnd(BitXor(a, result), BitXor(b, result)), 128) # 0)
    IN [val |-> result, cc |-> set_carry(c4, r16 > 255)]

\* sub8 reporting a borrow when the operands are equal
sub8_borrows_on_equal(a, b, cc) ==
    LET r16 == Wrap16(a - b + U16)
        result == r16 % U8
        c1 == set_negative(cc, BitAnd(result, 128) # 0)
        c2 == set_zero(c1, result = 0)
        c3 == set_overflow(c2,
                  BitAnd(BitAnd(BitXor(a, b), BitXor(a, result)), 128) # 0)
    IN [val |-> result, cc |-> set_carry(c3, a <= b)]

sub8(a, b, cc) ==
    LET r16 == Wrap16(a - b + U16)
        result == r16 % U8
        c1 == set_negative(cc, BitAnd(result, 128) # 0)
        c2 == set_zero(c1, result = 0)
        c3 == set_overflow(c2,
                  BitAnd(BitAnd(BitXor(a, b), BitXor(a, result)), 128) # 0)
    IN [val |-> result, cc |-> set_carry(c3, a < b)]

sbc8(a, b, cc) ==
    LET c == IF carry(cc) THEN 1 ELSE 0
        r16 == Wrap16(Wrap16(a - b + U16) - c + U16)
        result == r16 % U8
        c1 == set_negative(cc, BitAnd(result, 128) # 0)
        c2 == set_zero(c1, result = 0)
        c3 == set_overflow(c2,
                  BitAnd(BitAnd(BitXor(a, b), BitXor(a, result)), 128) # 0)
    IN [val |-> result, cc |-> set_carry(c3, r16 > 255)]

neg8(val, cc) ==
    LET result == Wrap8(U8 - val)
        c1 == set_negative(cc, BitAnd(result, 128) # 0)
        c2 == set_zero(c1, result = 0)
        c3 == set_overflow(c2, val = 128)
    IN [val |-> result, cc |-> set_carry(c3, val # 0)]

com8(val, cc) ==
    LET result == 255 - val
        c1 == set_negative(cc, BitAnd(result, 128) # 0)
        c2 == set_zero(c1, result = 0)
        c3 == set_overflow(c2, FALSE)
    IN [val |-> result, cc |-> set_carry(c3, TRUE)]

inc8(val, cc) ==
    LET result == Wrap8(val + 1)
        c1 == set_negative(cc, BitAnd(result, 128) # 0)
        c2 == set_zero(c1, result = 0)
    IN [val |-> result, cc |-> set_overflow(c2, val = 127)]

\* dec8 setting C on the borrow out of 0, as a subtraction of 1 would
dec8_borrows(val, cc) ==
    LET result == Wrap8(val - 1 + U8)
        c1 == set_negative(cc, BitAnd(result, 128) # 0)
        c2 == set_zero(c1, result = 0)
    IN [val |-> result,
        cc |-> set_carry(set_overflow(c2, val = 128), val = 0)]

dec8(val, cc) ==
    LET result == Wrap8(val - 1 + U8)
        c1 == set_negative(cc, BitAnd(result, 128) # 0)
        c2 == set_zero(c1, result = 0)
    IN [val |-> result, cc |-> set_overflow(c2, val = 128)]

clr8(cc) ==
    [val |-> 0,
     cc |-> set_carry(set_overflow(set_zero(set_negative(cc, FALSE), TRUE),
                                   FALSE), FALSE)]

\* tst8 returns nothing: val is the operand, unchanged
tst8(val, cc) ==
    LET c1 == set_negative(cc, BitAnd(val, 128) # 0)
        c2 == set_zero(c1, val = 0)
    IN [val |-> val, cc |-> set_overflow(c2, FALSE)]

and8(a, b, cc) ==
    LET result == BitAnd(a, b)
        c1 == set_negative(cc, BitAnd(result, 128) # 0)
        c2 == set_zero(c1, result = 0)
    IN [val |-> result, cc |-> set_overflow(c2, FALSE)]

or8(a, b, cc) ==
    LET result == BitOr(a, b)
        c1 == set_negative(cc, BitAnd(result, 128) # 0)
        c2 == set_zero(c1, result = 0)
    IN [val |-> result, cc |-> set_overflow(c2, FALSE)]

eor8(a, b, cc) ==
    LET result == BitXor(a, b)
        c1 == set_negative(cc, BitAnd(result, 128) # 0)
        c2 == set_zero(c1, result = 0)
    IN [val |-> result, cc |-> set_overflow(c2, FALSE)]

lsr8(val, cc) ==
    LET c1 == set_carry(cc, BitAnd(val, 1) # 0)
        result == val \div 2
        c2 == set_negative(c1, FALSE)
    IN [val |-> result, cc |-> set_zero(c2, result = 0)]

asr8(val, cc) ==
    LET c1 == set_carry(cc, BitAnd(val, 1) # 0)
        result == (val \div 2) + (IF val >= 128 THEN 128 ELSE 0)
        c2 == set_negative(c1, BitAnd(result, 128) # 0)
    IN [val |-> result, cc |-> set_zero(c2, result = 0)]

asl8(val, cc) ==
    LET c1 == set_carry(cc, BitAnd(val, 128) # 0)
        result == Wrap8(val * 2)
        c2 == set_negative(c1, BitAnd(result, 128) # 0)
        c3 == set_zero(c2, result = 0)
    IN [val |-> result,
        cc |-> set_overflow(c3, BitAnd(BitXor(val, result), 128) # 0)]

rol8(val, cc) ==
    LET old_c == IF carry(cc) THEN 1 ELSE 0
        c1 == set_carry(cc, BitAnd(val, 128) # 0)
        result == BitOr(Wrap8(val * 2), old_c)
        c2 == set_negative(c1, BitAnd(result, 128) # 0)
        c3 == set_zero(c2, result = 0)
    IN [val |-> result,
        cc |-> set_overflow(c3, BitAnd(BitXor(val, result), 128) # 0)]

ror8(val, cc) ==
    LET old_c == IF carry(cc) THEN 1 ELSE 0
        c1 == set_carry(cc, BitAnd(val, 1) # 0)
        result == BitOr(val \div 2, Wrap8(old_c * 128))
        c2 == set_negative(c1, BitAnd(result, 128) # 0)
    IN [val |-> result, cc |-> set_zero(c2, result = 0)]

add16(a, b, cc) ==
    LET r32 == a + b
        result == r32 % U16
        c1 == set_negative(cc, BitAnd(result, 32768) # 0)
        c2 == set_zero(c1, result = 0)
        c3 == set_overflow(c2,
                  BitAnd(BitAnd(BitXor(a, result), BitXor(b, result)), 32768) # 0)
    IN [val |-> result, cc |-> set_carry(c3, r32 > 65535)]

sub16(a, b, cc) ==
    LET result == Wrap16(a - b + U16)
        c1 == set_negative(cc, BitAnd(result, 32768) # 0)
        c2 == set_zero(c1, result = 0)
        c3 == set_overflow(c2,
                  BitAnd(BitAnd(BitXor(a, b), BitXor(a, result)), 32768) # 0)
    IN [val |-> result, cc |-> set_carry(c3, a < b)]

ld16_flags(val, cc) == set_overflow(set_nz16(cc, val), FALSE)

ld8_flags(val, cc) == set_overflow(set_nz8(cc, val), FALSE)

\* daa correcting the upper nibble on the carry alone
daa_on_carry_alone(a, cc) ==
    LET corr1 == IF half_carry(cc) \/ BitAnd(a, 15) > 9 THEN 6 ELSE 0
        upper == carry(cc)
        correction == IF upper THEN BitOr(corr1, 96) ELSE corr1
        result == Wrap8(a + correction)
        c1 == set_negative(cc, BitAnd(result, 128) # 0)
        c2 == set_zero(c1, result = 0)
    IN [val |-> result, cc |-> set_carry(c2, upper)]

daa(a, cc) ==
    LET corr1 == IF half_carry(cc) \/ BitAnd(a, 15) > 9 THEN 6 ELSE 0
        upper == carry(cc) \/ a > 153
        correction == IF upper THEN BitOr(corr1, 96) ELSE corr1
        result == Wrap8(a + correction)
        c1 == set_negative(cc, BitAnd(result, 128) # 0)
        c2 == set_zero(c1, result = 0)
    IN [val |-> result, cc |-> set_carry(c2, upper)]

mul(a, b, cc) ==
    LET result == a * b
        c1 == set_zero(cc, result = 0)
    IN [val |-> result, cc |-> set_carry(c1, BitAnd(result, 128) # 0)]

sex(b, cc) ==
    LET a == IF BitAnd(b, 128) # 0 THEN 255 ELSE 0
        c1 == set_negative(cc, a = 255)
    IN [val |-> 256 * a + b, cc |-> set_zero(c1, b = 0)]

(***************************************************************************)
(* cpu/opcodes: base cycle tables, indexed by opcode + 1.                  *)
(***************************************************************************)
PAGE0_CYCLES ==
    <<6, 1, 1, 6, 6, 1, 6, 6, 6, 6, 6, 1, 6, 6, 3, 6,
      1, 1, 2, 2, 1, 1, 5, 9, 1, 2, 3, 1, 3, 2, 8, 7,
      3, 3, 3, 3, 3, 3, 3, 3, 3, 3, 3, 3, 3, 3, 3, 3,
      4, 4, 4, 4, 5, 5, 5, 5, 1, 5, 3, 6, 21, 11, 1, 19,
      2, 1, 1, 2, 2, 1, 2, 2, 2, 2, 2, 1, 2, 2, 1, 2,
      2, 1, 1, 2, 2, 1, 2, 2, 2, 2, 2, 1, 2, 2, 1, 2,
      6, 1, 1, 6, 6, 1, 6, 6, 6, 6, 6, 1, 6, 6, 3, 6,
      7, 1, 1, 7, 7, 1, 7, 7, 7, 7, 7, 1, 7, 7, 4, 7,
      2, 2, 2, 4, 2, 2, 2, 1, 2, 2, 2, 2, 4, 7, 3, 1,
      4, 4, 4, 6, 4, 4, 4, 4, 4, 4, 4, 4, 6, 7, 5, 5,
      4, 4, 4, 6, 4, 4, 4, 4, 4, 4, 4, 4, 6, 7, 5, 5,
      5, 5, 5, 7, 5, 5, 5, 5, 5, 5, 5, 5, 7, 8, 6, 6,
      2, 2, 2, 4, 2, 2, 2, 1, 2, 2, 2, 2, 3, 1, 3, 1,
      4, 4, 4, 6, 4, 4, 4, 4, 4, 4, 4, 4, 5, 5, 5, 5,
      4, 4, 4, 6, 4, 4, 4, 4, 4, 4, 4, 4, 5, 5, 5, 5,
      5, 5, 5, 7, 5, 5, 5, 5, 5, 5, 5, 5, 6, 6, 6, 6>>

PAGE1_CYCLES ==
    <<0, 0, 0, 0, 0, 0, 0, 0, 0, 0, 0, 0, 0, 0, 0, 0,
      0, 0, 0, 0, 0, 0, 0, 0, 0, 0, 0, 0, 0, 0, 0, 0,
      0, 5, 5, 5, 5, 5, 5, 5, 5, 5, 5, 5, 5, 5, 5, 5,
      0, 0, 0, 0, 0, 0, 0, 0, 0, 0, 0, 0, 0, 0, 0, 20,
      0, 0, 0, 0, 0, 0, 0, 0, 0, 0, 0, 0, 0, 0, 0, 0,
      0, 0, 0, 0, 0, 0, 0, 0, 0, 0, 0, 0, 0, 0, 0, 0,
      0, 0, 0, 0, 0, 0, 0, 0, 0, 0, 0, 0, 0, 0, 0, 0,
      0, 0, 0, 0, 0, 0, 0, 0, 0, 0, 0, 0, 0, 0, 0, 0,
      0, 0, 0, 5, 0, 0, 0, 0, 0, 0, 0, 0, 5, 0, 4, 0,
      0, 0, 0, 7, 0, 0, 0, 0, 0, 0, 0, 0, 7, 0, 6, 6,
      0, 0, 0, 7, 0, 0, 0, 0, 0, 0, 0, 0, 7, 0, 6, 6,
      0, 0, 0, 8, 0, 0, 0, 0, 0, 0, 0, 0, 8, 0, 7, 7,
      0, 0, 0, 0, 0, 0, 0, 0, 0, 0, 0, 0, 0, 0, 4, 0,
      0, 0, 0, 0, 0, 0, 0, 0, 0, 0, 0, 0, 0, 0, 6, 6,
      0, 0, 0, 0, 0, 0, 0, 0, 0, 0, 0, 0, 0, 0, 6, 6,
      0, 0, 0, 0, 0, 0, 0, 0, 0, 0, 0, 0, 0, 0, 7, 7>>

PAGE2_CYCLES ==
    <<0, 0, 0, 0, 0, 0, 0, 0, 0, 0, 0, 0, 0, 0, 0, 0,
      0, 0, 0, 0, 0, 0, 0, 0, 0, 0, 0, 0, 0, 0, 0, 0,
      0, 0, 0, 0, 0, 0, 0, 0, 0, 0, 0, 0, 0, 0, 0, 0,
      0, 0, 0, 0, 0, 0, 0, 0, 0, 0, 0, 0, 0, 0, 0, 20,
      0, 0, 0, 0, 0, 0, 0, 0, 0, 0, 0, 0, 0, 0, 0, 0,
      0, 0, 0, 0, 0, 0, 0, 0, 0, 0, 0, 0, 0, 0, 0, 0,
      0, 0, 0, 0, 0, 0, 0, 0, 0, 0, 0, 0, 0, 0, 0, 0,
      0, 0, 0, 0, 0, 0, 0, 0, 0, 0, 0, 0, 0, 0, 0, 0,
      0, 0, 0, 5, 0, 0, 0, 0, 0, 0, 0, 0, 5, 0, 0, 0,
      0, 0, 0, 7, 0, 0, 0, 0, 0, 0, 0, 0, 7, 0, 0, 0,
      0, 0, 0, 7, 0, 0, 0, 0, 0, 0, 0, 0, 7, 0, 0, 0,
      0, 0, 0, 8, 0, 0, 0, 0, 0, 0, 0, 0, 8, 0, 0, 0,
      0, 0, 0, 0, 0, 0, 0, 0, 0, 0, 0, 0, 0, 0, 0, 0,
      0, 0, 0, 0, 0, 0, 0, 0, 0, 0, 0, 0, 0, 0, 0, 0,
      0, 0, 0, 0, 0, 0, 0, 0, 0, 0, 0, 0, 0, 0, 0, 0,
      0, 0, 0, 0, 0, 0, 0, 0, 0, 0, 0, 0, 0, 0, 0, 0>>

(***************************************************************************)
(* page0.rs: PSHS / PULS / PSHU / PULU.                                    *)
(***************************************************************************)
\* one `if post & bit != 0 { push r; cycles += n }` of pshs
psh_item_s(m, post, bit, r, n) ==
    IF TestBit(post, bit) THEN add_cycles(push_r_s(m, r), n) ELSE m

\* pshs pushing in the order CC, A, B, DP, X, Y, U, PC (lowest bit first)
pshs_low_first(m, post) ==
    psh_item_s(psh_item_s(psh_item_s(psh_item_s(psh_item_s(psh_item_s(
    psh_item_s(psh_item_s(m, post, 1, "cc", 1), post, 2, "a", 1),
        post, 4, "b", 1), post, 8, "dp", 1), post, 16, "x", 2),
        post, 32, "y", 2), post, 64, "u", 2), post, 128, "pc", 2)

pshs(m, post) ==
    psh_item_s(psh_item_s(psh_item_s(psh_item_s(psh_item_s(psh_item_s(
    psh_item_s(psh_item_s(m, post, 128, "pc", 2), post, 64, "u", 2),
        post, 32, "y", 2), post, 16, "x", 2), post, 8, "dp", 1),
        post, 4, "b", 1), post, 2, "a", 1), post, 1, "cc", 1)

\* one `if post & bit != 0 { r = pull; cycles += n }` of puls
pul_item_s(m, post, bit, r, n) ==
    IF TestBit(post, bit) THEN add_cycles(pull_r_s(m, r), n) ELSE m

puls(m, post) ==
    pul_item_s(pul_item_s(pul_item_s(pul_item_s(pul_item_s(pul_item_s(
    pul_item_s(pul_item_s(m, post, 1, "cc", 1), post, 2, "a", 1),
        post, 4, "b", 1), post, 8, "dp", 1), post, 16, "x", 2),
        post, 32, "y", 2), post, 64, "u", 2), post, 128, "pc", 2)

psh_item_u(m, post, bit, r, n) ==
    IF TestBit(post, bit) THEN add_cycles(push_r_u(m, r), n) ELSE m

pshu(m, post) ==
    psh_item_u(psh_item_u(psh_item_u(psh_item_u(psh_item_u(psh_item_u(
    psh_item_u(psh_item_u(m, post, 128, "pc", 2), post, 64, "s", 2),
        post, 32, "y", 2), post, 16, "x", 2), post, 8, "dp", 1),
        post, 4, "b", 1), post, 2, "a", 1), post, 1, "cc", 1)

\* as pul_item_s on the U stack; pulling S arms NMI
pul_item_u(m, post, bit, r, n) ==
    IF ~TestBit(post, bit) THEN m
    ELSE IF r = "s" THEN add_cycles(arm_nmi(pull_r_u(m, r)), n)
    ELSE add_cycles(pull_r_u(m, r), n)

\* pulu pulling U, not S, for bit 6
pulu_pulls_u(m, post) ==
    pul_item_u(pul_item_u(pul_item_u(pul_item_u(pul_item_u(pul_item_u(
    pul_item_u(pul_item_u(m, post, 1, "cc", 1), post, 2, "a", 1),
        post, 4, "b", 1), post, 8, "dp", 1), post, 16, "x", 2),
        post, 32, "y", 2), post, 64, "u", 2), post, 128, "pc", 2)

pulu(m, post) ==
    pul_item_u(pul_item_u(pul_item_u(pul_item_u(pul_item_u(pul_item_u(
    pul_item_u(pul_item_u(m, post, 1, "cc", 1), post, 2, "a", 1),
        post, 4, "b", 1), post, 8, "dp", 1), post, 16, "x", 2),
        post, 32, "y", 2), post, 64, "s", 2), post, 128, "pc", 2)

(***************************************************************************)
(* page0.rs: TFR / EXG.                                                    *)
(***************************************************************************)
\* read_reg is [val, is16]
read_reg(c, code) ==
    CASE code = 0 -> [val |-> c.reg.d, is16 |-> TRUE]
      [] code = 1 -> [val |-> c.reg.x, is16 |-> TRUE]
      [] code = 2 -> [val |-> c.reg.y, is16 |-> TRUE]
      [] code = 3 -> [val |-> c.reg.u, is16 |-> TRUE]
      [] code = 4 -> [val |-> c.reg.s, is16 |-> TRUE]
      [] code = 5 -> [val |-> c.reg.pc, is16 |-> TRUE]
      [] code = 8 -> [val |-> reg_a(c.reg), is16 |-> FALSE]
      [] code = 9 -> [val |-> reg_b(c.reg), is16 |-> FALSE]
      [] code = 10 -> [val |-> c.reg.cc, is16 |-> FALSE]
      [] code = 11 -> [val |-> c.reg.dp, is16 |-> FALSE]
      [] OTHER -> [val |-> 255, is16 |-> FALSE]

\* write_reg with the arm_nmi of its S arm left out
write_reg_unarmed(m, code, val) ==
    CASE code = 0 -> [m EXCEPT !.cpu.reg.d = val]
      [] code = 1 -> [m EXCEPT !.cpu.reg.x = val]
      [] code = 2 -> [m EXCEPT !.cpu.reg.y = val]
      [] code = 3 -> [m EXCEPT !.cpu.reg.u = val]
      [] code = 4 -> [m EXCEPT !.cpu.reg.s = val]
      [] code = 5 -> [m EXCEPT !.cpu.reg.pc = val]
      [] code = 8 -> [m EXCEPT !.cpu.reg = set_a(@, Wrap8(val))]
      [] code = 9 -> [m EXCEPT !.cpu.reg = set_b(@, Wrap8(val))]
      [] code = 10 -> [m EXCEPT !.cpu.reg.cc = Wrap8(val)]
      [] code = 11 -> [m EXCEPT !.cpu.reg.dp = Wrap8(val)]
      [] OTHER -> m

write_reg(m, code, val) ==
    CASE code = 0 -> [m EXCEPT !.cpu.reg.d = val]
      [] code = 1 -> [m EXCEPT !.cpu.reg.x = val]
      [] code = 2 -> [m EXCEPT !.cpu.reg.y = val]
      [] code = 3 -> [m EXCEPT !.cpu.reg.u = val]
      [] code = 4 -> arm_nmi([m EXCEPT !.cpu.reg.s = val])
      [] code = 5 -> [m EXCEPT !.cpu.reg.pc = val]
      [] code = 8 -> [m EXCEPT !.cpu.reg = set_a(@, Wrap8(val))]
      [] code = 9 -> [m EXCEPT !.cpu.reg = set_b(@, Wrap8(val))]
      [] code = 10 -> [m EXCEPT !.cpu.reg.cc = Wrap8(val)]
      [] code = 11 -> [m EXCEPT !.cpu.reg.dp = Wrap8(val)]
      [] OTHER -> m

\* tfr copying the source value whatever the sizes
tfr_any_size(m, post) ==
    write_reg(m, post % 16, read_reg(m.cpu, (post \div 16) % 16).val)

tfr(m, post) ==
    LET src_code == (post \div 16) % 16
        dst_code == post % 16
        src == read_reg(m.cpu, src_code)
        dst == read_reg(m.cpu, dst_code)
        val == IF src.is16 # dst.is16
               THEN (IF dst.is16 THEN 65535 ELSE 255)
               ELSE src.val
    IN write_reg(m, dst_code, val)

exg(m, post) ==
    LET src_code == (post \div 16) % 16
        dst_code == post % 16
        src == read_reg(m.cpu, src_code)
        dst == read_reg(m.cpu, dst_code)
    IN IF src.is16 # dst.is16
       THEN write_reg(write_reg(m, src_code, IF src.is16 THEN 65535 ELSE 255),
                      dst_code, IF dst.is16 THEN 65535 ELSE 255)
       ELSE write_reg(write_reg(m, src_code, dst.val), dst_code, src.val)

(***************************************************************************)
(* page0.rs: execute.  The 256-way match is decoded by the high nibble     *)
(* (the row of the opcode map) and the low nibble (its column).            *)
(***************************************************************************)
\* the `_` arm of page 0
illegal_page0(m) == [m EXCEPT !.cpu.illegal = TRUE]

\* the ALU call of the read-modify-write columns (rows 0x0, 0x4..0x7)
rmw8(col, val, cc) ==
    CASE col \in {0, 1} -> neg8(val, cc)
      [] col = 3 -> com8(val, cc)
      [] col \in {4, 5} -> lsr8(val, cc)
      [] col = 6 -> ror8(val, cc)
      [] col = 7 -> asr8(val, cc)
      [] col = 8 -> asl8(val, cc)
      [] col = 9 -> rol8(val, cc)
      [] col = 10 -> dec8(val, cc)
      [] col = 12 -> inc8(val, cc)
      [] col = 13 -> tst8(val, cc)
      [] col = 15 -> clr8(cc)

\* `cpu.reg.cc` after an ALU call: r is its [val, cc]
put_cc(m, r) == [m EXCEPT !.cpu.reg.cc = r.cc]

\* `cpu.reg.pc = addr`: a is the [m, val] that computed addr
load_pc(a) == [a.m EXCEPT !.cpu.reg.pc = a.val]

\* `let (addr, ex) = cpu.addr_indexed(bus); cpu.cycles += ex as u64;`
charge_extra(r) == [m |-> add_cycles(r.m, r.extra), val |-> r.ea]

\* the effective address of a direct (1), indexed (2) or extended (3)
\* operand: [m, val]
operand_addr(m, mode) ==
    CASE mode = 1 -> addr_direct(m)
      [] mode = 2 -> charge_extra(addr_indexed(m))
      [] mode = 3 -> addr_extended(m)

\* `bus.read(addr)`: a is the [m, val] that computed addr
read_at(a) == read(a.m, a.val)

\* an 8-bit operand: immediate (mode 0) or read from the effective address
operand8(m, mode) ==
    IF mode = 0 THEN fetch_byte(m) ELSE read_at(operand_addr(m, mode))

\* a 16-bit operand: immediate (mode 0) or read from the effective address
operand16(m, mode) ==
    IF mode = 0 THEN fetch_word(m) ELSE read_word_at(operand_addr(m, mode))

\* the flags and the write-back of a memory read-modify-write; TST (column
\* 13) writes nothing
rmw_put(m, addr, col, r) ==
    IF col = 13 THEN put_cc(m, r) ELSE write(put_cc(m, r), addr, r.val)

\* v is the [m, val] of the read at addr
rmw_read(v, addr, col) ==
    rmw_put(v.m, addr, col, rmw8(col, v.val, v.m.cpu.reg.cc))

\* CLR reading the effective address before it writes
rmw_at_clr_reads(a, col) ==
    IF col = 14 THEN load_pc(a) ELSE rmw_read(read_at(a), a.val, col)

\* a is the [m, val] of the effective address; JMP (column 14) and CLR
\* (column 15) do not read
rmw_at(a, col) ==
    CASE col = 14 -> load_pc(a)
      [] col = 15 -> rmw_put(a.m, a.val, col, clr8(a.m.cpu.reg.cc))
      [] OTHER -> rmw_read(read_at(a), a.val, col)

\* rows 0x0, 0x6, 0x7: memory read-modify-write, TST, JMP, CLR
rmw_mem(m, opcode) ==
    IF opcode % 16 \in {2, 11} THEN illegal_page0(m)
    ELSE rmw_at(operand_addr(m, IF opcode < 16 THEN 1
                                ELSE IF opcode < 112 THEN 2 ELSE 3),
                opcode % 16)

\* the flags and the write-back of an inherent A / B operation
rmw_acc_put(m, acc, col, r) ==
    IF col = 13 THEN put_cc(m, r) ELSE put_r(put_cc(m, r), acc, r.val)

\* rows 0x4 and 0x5: inherent A / B
rmw_acc(m, opcode) ==
    LET acc == IF opcode >= 80 THEN "b" ELSE "a"
    IN IF opcode % 16 \in {2, 11, 14} THEN illegal_page0(m)
       ELSE rmw_acc_put(m, acc, opcode % 16,
                        rmw8(opcode % 16, get_r(m.cpu, acc), m.cpu.reg.cc))

\* the condition of the short (0x2n) and long (0x10 0x2n) branches
branch_cond(n, cc) ==
    CASE n = 0 -> TRUE
      [] n = 1 -> FALSE
      [] n = 2 -> ~carry(cc) /\ ~zero(cc)
      [] n = 3 -> carry(cc) \/ zero(cc)
      [] n = 4 -> ~carry(cc)
      [] n = 5 -> carry(cc)
      [] n = 6 -> ~zero(cc)
      [] n = 7 -> zero(cc)
      [] n = 8 -> ~overflow(cc)
      [] n = 9 -> overflow(cc)
      [] n = 10 -> ~negative(cc)
      [] n = 11 -> negative(cc)
      [] n = 12 -> negative(cc) = overflow(cc)
      [] n = 13 -> negative(cc) # overflow(cc)
      [] n = 14 -> ~zero(cc) /\ negative(cc) = overflow(cc)
      [] n = 15 -> zero(cc) \/ negative(cc) # overflow(cc)

\* `if cond { cpu.reg.pc = addr; cpu.cycles += n }`: a is the [m, val] of
\* the branch target
branch_to(a, n, taken_cycles) ==
    IF branch_cond(n, a.m.cpu.reg.cc)
    THEN add_cycles(load_pc(a), taken_cycles)
    ELSE a.m

\* short branches that are never taken
short_branch_falls_through(m, opcode) == addr_relative8(m).m

\* row 0x2: short branches
short_branch(m, opcode) == branch_to(addr_relative8(m), opcode % 16, 0)

\* the two-operand 8-bit ALU columns of rows 0x8..0xF
alu8(col, a, v, cc) ==
    CASE col \in {0, 1} -> sub8(a, v, cc)
      [] col = 2 -> sbc8(a, v, cc)
      [] col \in {4, 5} -> and8(a, v, cc)
      [] col = 8 -> eor8(a, v, cc)
      [] col = 9 -> adc8(a, v, cc)
      [] col = 10 -> or8(a, v, cc)
      [] col = 11 -> add8(a, v, cc)

\* the flags and the write-back of a two-operand operation; CMP (column 1)
\* and BIT (column 5) discard the result
alu8_put(m, acc, col, r) ==
    IF col \in {1, 5} THEN put_cc(m, r) ELSE put_r(put_cc(m, r), acc, r.val)

\* columns 0..2, 4..6, 8..B: o is the [m, val] of the operand; column 6 is
\* LDA / LDB
acc8_apply(o, acc, col) ==
    IF col = 6
    THEN put_r([o.m EXCEPT !.cpu.reg.cc = ld8_flags(o.val, @)], acc, o.val)
    ELSE alu8_put(o.m, acc, col,
                  alu8(col, get_r(o.m.cpu, acc), o.val, o.m.cpu.reg.cc))

\* `r = alu16(..); cpu.reg.d = r`
d_put(m, r) == [m EXCEPT !.cpu.reg.cc = r.cc, !.cpu.reg.d = r.val]

\* LDD / LDX / LDU / LDY
ld16_put(o, r) ==
    [o.m EXCEPT !.cpu.reg.cc = ld16_flags(o.val, @), !.cpu.reg[r] = o.val]

\* CMPX / CMPD / CMPY / CMPU / CMPS
cmp16_put(o, r) ==
    [o.m EXCEPT !.cpu.reg.cc = sub16(o.m.cpu.reg[r], o.val, @).cc]

\* columns 3, C, E: o is the [m, val] of the 16-bit operand
acc16_apply(o, isB, col) ==
    CASE col = 3 /\ isB -> d_put(o.m, add16(o.m.cpu.reg.d, o.val, o.m.cpu.reg.cc))
      [] col = 3 /\ ~isB -> d_put(o.m, sub16(o.m.cpu.reg.d, o.val, o.m.cpu.reg.cc))
      [] col = 12 /\ isB -> ld16_put(o, "d")
      [] col = 12 /\ ~isB -> cmp16_put(o, "x")
      [] col = 14 /\ isB -> ld16_put(o, "u")
      [] col = 14 /\ ~isB -> ld16_put(o, "x")

\* STA / STB: a is the [m, val] of the effective address
st8_put(a, acc) ==
    write([a.m EXCEPT !.cpu.reg.cc = ld8_flags(get_r(a.m.cpu, acc), @)],
          a.val, get_r(a.m.cpu, acc))

\* STD / STX / STU / STY / STS
st16_put(a, r) ==
    write_word([a.m EXCEPT !.cpu.reg.cc = ld16_flags(a.m.cpu.reg[r], @)],
               a.val, a.m.cpu.reg[r])

\* BSR / LBSR / JSR: a is the [m, val] of the target
\* a call pushing the address it jumps to
call_pushes_target(a) ==
    load_pc([m |-> push_word_s(a.m, a.val), val |-> a.val])

call_to(a) == load_pc([m |-> push_word_s(a.m, a.m.cpu.reg.pc), val |-> a.val])

\* rows 0x8..0xF: accumulator, D, X and U operations
acc_op(m, opcode) ==
    LET col == opcode % 16
        mode == (opcode \div 16) % 4
        isB == opcode >= 192
        acc == IF isB THEN "b" ELSE "a"
    IN CASE col \in {0, 1, 2, 4, 5, 6, 8, 9, 10, 11} ->
              acc8_apply(operand8(m, mode), acc, col)
         [] col \in {3, 12, 14} -> acc16_apply(operand16(m, mode), isB, col)
         [] col = 13 /\ ~isB /\ mode = 0 -> call_to(addr_relative8(m))
         [] col = 13 /\ ~isB /\ mode # 0 -> call_to(operand_addr(m, mode))
         [] mode = 0 -> illegal_page0(m)
         [] col = 7 -> st8_put(operand_addr(m, mode), acc)
         [] col = 13 -> st16_put(operand_addr(m, mode), "d")
         [] col = 15 -> st16_put(operand_addr(m, mode), IF isB THEN "u" ELSE "x")

\* ORCC / ANDCC: f is the [m, val] of the immediate fetch
cc_or(f) == [f.m EXCEPT !.cpu.reg.cc = or_with(@, f.val)]
cc_and(f) == [f.m EXCEPT !.cpu.reg.cc = and_with(@, f.val)]

\* EXG / TFR after the post-byte fetch
exg_fetched(f) == exg(f.m, f.val)
tfr_fetched(f) == tfr(f.m, f.val)

\* row 0x1: inherent and miscellaneous
misc_op(m, opcode) ==
    CASE opcode = 18 -> m
      [] opcode = 19 -> [m EXCEPT !.cpu.sync = TRUE]
      [] opcode = 22 -> load_pc(addr_relative16(m))
      [] opcode = 23 -> call_to(addr_relative16(m))
      [] opcode = 25 -> put_r(put_cc(m, daa(reg_a(m.cpu.reg), m.cpu.reg.cc)),
                              "a", daa(reg_a(m.cpu.reg), m.cpu.reg.cc).val)
      [] opcode = 26 -> cc_or(fetch_byte(m))
      [] opcode = 28 -> cc_and(fetch_byte(m))
      [] opcode = 29 -> d_put(m, sex(reg_b(m.cpu.reg), m.cpu.reg.cc))
      [] opcode = 30 -> exg_fetched(fetch_byte(m))
      [] opcode = 31 -> tfr_fetched(fetch_byte(m))
      [] OTHER -> illegal_page0(m)

\* rti_entire restoring the whole frame whatever E says
rti_entire_always(m) ==
    add_cycles(
        pull_r_s(pull_r_s(pull_r_s(pull_r_s(pull_r_s(pull_r_s(
            m, "a"), "b"), "dp"), "x"), "y"), "u"), 9)

\* the `if cpu.reg.cc.entire()` of RTI, CC already pulled
rti_entire(m) ==
    IF entire(m.cpu.reg.cc)
    THEN add_cycles(
             pull_r_s(pull_r_s(pull_r_s(pull_r_s(pull_r_s(pull_r_s(
                 m, "a"), "b"), "dp"), "x"), "y"), "u"), 9)
    ELSE m

\* RTI deciding on the E bit CC held before the pull
rti_decides_before_pull(m) ==
    IF entire(m.cpu.reg.cc)
    THEN pull_r_s(rti_entire_always(pull_r_s(m, "cc")), "pc")
    ELSE pull_r_s(pull_r_s(m, "cc"), "pc")

\* 0x3B
rti(m) == pull_r_s(rti_entire(pull_r_s(m, "cc")), "pc")

\* CWAI after the immediate fetch
cwai_fetched(f) ==
    [push_entire_state(
         [f.m EXCEPT !.cpu.reg.cc = set_entire(and_with(@, f.val), TRUE)])
     EXCEPT !.cpu.cwai = TRUE]

\* 0x3C
cwai(m) == cwai_fetched(fetch_byte(m))

\* `cpu.reg.cc.set_entire(true); cpu.push_entire_state(bus);`
push_all(m) ==
    push_entire_state([m EXCEPT !.cpu.reg.cc = set_entire(@, TRUE)])

mask_if(m) ==
    [m EXCEPT !.cpu.reg.cc = set_firq_inhibit(set_irq_inhibit(@, TRUE), TRUE)]

\* 0x3F
swi(m) == load_pc(read_word(mask_if(push_all(m)), VEC_SWI))

\* LEAX / LEAY / LEAS / LEAU: ix is the [m, ea, extra] of addr_indexed
lea(ix, opcode) ==
    CASE opcode = 48 ->
           add_cycles([ix.m EXCEPT !.cpu.reg.x = ix.ea,
                                   !.cpu.reg.cc = set_zero(@, ix.ea = 0)],
                      ix.extra)
      [] opcode = 49 ->
           add_cycles([ix.m EXCEPT !.cpu.reg.y = ix.ea,
                                   !.cpu.reg.cc = set_zero(@, ix.ea = 0)],
                      ix.extra)
      [] opcode = 50 ->
           add_cycles(arm_nmi([ix.m EXCEPT !.cpu.reg.s = ix.ea]), ix.extra)
      [] opcode = 51 -> add_cycles([ix.m EXCEPT !.cpu.reg.u = ix.ea], ix.extra)

\* PSHS / PULS / PSHU / PULU after the post-byte fetch
psh_pul(pb, opcode) ==
    CASE opcode = 52 -> pshs(pb.m, pb.val)
      [] opcode = 53 -> puls(pb.m, pb.val)
      [] opcode = 54 -> pshu(pb.m, pb.val)
      [] opcode = 55 -> pulu(pb.m, pb.val)

\* row 0x3: LEA, stack and miscellaneous inherent
stack_op(m, opcode) ==
    CASE opcode \in 48..51 -> lea(addr_indexed(m), opcode)
      [] opcode \in 52..55 -> psh_pul(fetch_byte(m), opcode)
      [] opcode = 57 -> load_pc(pull_word_s(m))
      [] opcode = 58 -> [m EXCEPT !.cpu.reg.x = Wrap16(@ + reg_b(m.cpu.reg))]
      [] opcode = 59 -> rti(m)
      [] opcode = 60 -> cwai(m)
      [] opcode = 61 ->
           d_put(m, mul(reg_a(m.cpu.reg), reg_b(m.cpu.reg), m.cpu.reg.cc))
      [] opcode = 62 -> [m EXCEPT !.cpu.halted = TRUE]
      [] opcode = 63 -> swi(m)
      [] OTHER -> illegal_page0(m)

page0_body(m, opcode) ==
    CASE opcode \div 16 \in {0, 6, 7} -> rmw_mem(m, opcode)
      [] opcode \div 16 = 1 -> misc_op(m, opcode)
      [] opcode \div 16 = 2 -> short_branch(m, opcode)
      [] opcode \div 16 = 3 -> stack_op(m, opcode)
      [] opcode \div 16 \in {4, 5} -> rmw_acc(m, opcode)
      [] OTHER -> acc_op(m, opcode)

page0_execute(m, opcode) ==
    page0_body(add_cycles(m, PAGE0_CYCLES[opcode + 1]), opcode)

(***************************************************************************)
(* page1.rs (prefix 0x10) and page2.rs (prefix 0x11): execute.  The `_`    *)
(* arm of either page only prints: it leaves the machine as the table add  *)
(* (of 0) left it.                                                         *)
(***************************************************************************)
\* SWI2 / SWI3: push the entire state, I and F untouched
\* SWI2 / SWI3 setting I and F as SWI does
swi23_masks(m, vec) == load_pc(read_word(mask_if(push_all(m)), vec))

swi23(m, vec) == load_pc(read_word(push_all(m), vec))

\* LDS: LDY with the NMI arming
lds_put(o) == arm_nmi(ld16_put(o, "s"))

page1_body(m, opcode) ==
    CASE opcode \in 33..47 -> branch_to(addr_relative16(m), opcode % 16, 1)
      [] opcode = 63 -> swi23(m, VEC_SWI2)
      [] opcode \in {131, 147, 163, 179} ->
           cmp16_put(operand16(m, (opcode \div 16) % 4), "d")
      [] opcode \in {140, 156, 172, 188} ->
           cmp16_put(operand16(m, (opcode \div 16) % 4), "y")
      [] opcode \in {142, 158, 174, 190} ->
           ld16_put(operand16(m, (opcode \div 16) % 4), "y")
      [] opcode \in {159, 175, 191} ->
           st16_put(operand_addr(m, (opcode \div 16) % 4), "y")
      [] opcode \in {206, 222, 238, 254} ->
           lds_put(operand16(m, (opcode \div 16) % 4))
      [] opcode \in {223, 239, 255} ->
           st16_put(operand_addr(m, (opcode \div 16) % 4), "s")
      [] OTHER -> m

page1_execute(m, opcode) ==
    page1_body(add_cycles(m, PAGE1_CYCLES[opcode + 1]), opcode)

page2_body(m, opcode) ==
    CASE opcode = 63 -> swi23(m, VEC_SWI3)
      [] opcode \in {131, 147, 163, 179} ->
           cmp16_put(operand16(m, (opcode \div 16) % 4), "u")
      [] opcode \in {140, 156, 172, 188} ->
           cmp16_put(operand16(m, (opcode \div 16) % 4), "s")
      [] OTHER -> m

page2_execute(m, opcode) ==
    page2_body(add_cycles(m, PAGE2_CYCLES[opcode + 1]), opcode)

\* the second opcode byte, fetched: f is the [m, val] of the fetch
page1_fetched(f) == page1_execute(f.m, f.val)
page2_fetched(f) == page2_execute(f.m, f.val)

\* opcodes/mod.rs: Cpu::execute
execute(m, opcode) ==
    CASE opcode = 16 -> page1_fetched(fetch_byte(m))
      [] opcode = 17 -> page2_fetched(fetch_byte(m))
      [] OTHER -> page0_execute(m, opcode)

(***************************************************************************)
(* cpu.rs: interrupt logic and the public operations.                      *)
(***************************************************************************)
\* pending_source with the IRQ test moved before the FIRQ test
pending_source_irq_first(c) ==
    IF c.nmi_pending THEN "nmi"
    ELSE IF c.irq_line /\ ~irq_inhibit(c.reg.cc) THEN "irq"
    ELSE IF c.firq_line /\ ~firq_inhibit(c.reg.cc) THEN "firq"
    ELSE "none"

\* pending_source with the I and F tests left out
pending_source_unmasked(c) ==
    IF c.nmi_pending THEN "nmi"
    ELSE IF c.firq_line THEN "firq"
    ELSE IF c.irq_line THEN "irq"
    ELSE "none"

\* the source check_interrupts dispatches: the first of its three `if`s
\* whose condition holds
pending_source(c) ==
    IF c.nmi_pending THEN "nmi"
    ELSE IF c.firq_line /\ ~firq_inhibit(c.reg.cc) THEN "firq"
    ELSE IF c.irq_line /\ ~irq_inhibit(c.reg.cc) THEN "irq"
    ELSE "none"

\* `if !self.cwai { set_entire; push }`: FIRQ pushes PC and CC with E
\* clear, NMI and IRQ the entire state with E set
\* dispatch_push saving the entire state for FIRQ as for the others
dispatch_push_entire(m, src) == IF m.cpu.cwai THEN m ELSE push_all(m)

\* dispatch_push without the `if !self.cwai`: the frame is pushed again
dispatch_push_in_cwai(m, src) ==
    IF src = "firq"
    THEN push_r_s(push_r_s([m EXCEPT !.cpu.reg.cc = set_entire(@, FALSE)],
                           "pc"), "cc")
    ELSE push_all(m)

dispatch_push(m, src) ==
    IF m.cpu.cwai THEN m
    ELSE IF src = "firq"
    THEN push_r_s(push_r_s([m EXCEPT !.cpu.reg.cc = set_entire(@, FALSE)],
                           "pc"), "cc")
    ELSE push_all(m)

\* dispatch_mask setting I and F for every source, IRQ included
dispatch_mask_both(m, src) == [mask_if(m) EXCEPT !.cpu.cwai = FALSE]

\* `self.cwai = false` and the masks: IRQ sets I, NMI and FIRQ set I and F
dispatch_mask(m, src) ==
    IF src = "irq"
    THEN [m EXCEPT !.cpu.cwai = FALSE, !.cpu.reg.cc = set_irq_inhibit(@, TRUE)]
    ELSE [mask_if(m) EXCEPT !.cpu.cwai = FALSE]

dispatch_vector(src) ==
    CASE src = "nmi" -> VEC_NMI
      [] src = "firq" -> VEC_FIRQ
      [] src = "irq" -> VEC_IRQ

dispatch_cycles(src) == IF src = "firq" THEN 10 ELSE 19

\* dispatch that consumes the line it serves, as if IRQ and FIRQ were edges
dispatch_consumes_line(m, src) ==
    add_cycles(
        load_pc(read_word(
            dispatch_mask(
                dispatch_push(
                    [m EXCEPT !.cpu.nmi_pending = @ /\ src # "nmi",
                              !.cpu.firq_line = @ /\ src # "firq",
                              !.cpu.irq_line = @ /\ src # "irq"],
                    src),
                src),
            dispatch_vector(src))),
        dispatch_cycles(src))

\* the body of the `if` of check_interrupts for source src
dispatch(m, src) ==
    add_cycles(
        load_pc(read_word(
            dispatch_mask(
                dispatch_push(
                    IF src = "nmi" THEN [m EXCEPT !.cpu.nmi_pending = FALSE]
                    ELSE m,
                    src),
                src),
            dispatch_vector(src))),
        dispatch_cycles(src))

\* Cpu::check_interrupts: [m, val, src]; src names the source dispatched
check_interrupts(m) ==
    IF pending_source(m.cpu) = "none"
    THEN [m |-> m, val |-> FALSE, src |-> "none"]
    ELSE [m |-> dispatch(m, pending_source(m.cpu)), val |-> TRUE,
          src |-> pending_source(m.cpu)]

\* `self.cycles - start_cycles`, with the branch of step that returned
step_ret(m, start_cycles, ev) ==
    [m |-> m, ret |-> m.cpu.cycles - start_cycles, ev |-> ev]

\* `self.execute(bus, opcode)`: f is the [m, val] of the opcode fetch
step_execute(f, start_cycles) ==
    step_ret(execute(f.m, f.val), start_cycles, "exec")

\* step going on to fetch and execute after a dispatch
step_checked_runs_on(ci, start_cycles) ==
    step_execute(fetch_byte(ci.m), start_cycles)

\* step from `if self.check_interrupts(bus)` on: ci is its [m, val, src]
step_checked(ci, start_cycles) ==
    IF ci.val THEN step_ret(ci.m, start_cycles, ci.src)
    ELSE step_execute(fetch_byte(ci.m), start_cycles)

\* step with the halted test left out: a halted Cpu polls its interrupts
\* and runs on
step_ignores_halted(m) ==
    IF m.cpu.sync
       /\ ~(m.cpu.nmi_pending \/ m.cpu.firq_line \/ m.cpu.irq_line)
    THEN [m |-> add_cycles(m, 1), ret |-> 1, ev |-> "idle"]
    ELSE step_checked(check_interrupts([m EXCEPT !.cpu.sync = FALSE,
                                                 !.cpu.halted = FALSE]),
                      m.cpu.cycles)

\* step whose halted branch counts the cycle it returns
step_halted_ticks(m) ==
    IF m.cpu.halted
    THEN [m |-> add_cycles(m, 1), ret |-> 1, ev |-> "halted"]
    ELSE IF m.cpu.sync
            /\ ~(m.cpu.nmi_pending \/ m.cpu.firq_line \/ m.cpu.irq_line)
    THEN [m |-> add_cycles(m, 1), ret |-> 1, ev |-> "idle"]
    ELSE step_checked(check_interrupts([m EXCEPT !.cpu.sync = FALSE]),
                      m.cpu.cycles)

\* step that leaves SYNC only for an interrupt it can dispatch
step_sync_needs_unmasked(m) ==
    IF m.cpu.halted
    THEN [m |-> m, ret |-> 1, ev |-> "halted"]
    ELSE IF m.cpu.sync /\ pending_source(m.cpu) = "none"
    THEN [m |-> add_cycles(m, 1), ret |-> 1, ev |-> "idle"]
    ELSE step_checked(check_interrupts([m EXCEPT !.cpu.sync = FALSE]),
                      m.cpu.cycles)

\* step whose idle SYNC cycle ends the wait
step_idle_ends_sync(m) ==
    IF m.cpu.halted
    THEN [m |-> m, ret |-> 1, ev |-> "halted"]
    ELSE IF m.cpu.sync
            /\ ~(m.cpu.nmi_pending \/ m.cpu.firq_line \/ m.cpu.irq_line)
    THEN [m |-> add_cycles([m EXCEPT !.cpu.sync = FALSE], 1), ret |-> 1,
          ev |-> "idle"]
    ELSE step_checked(check_interrupts([m EXCEPT !.cpu.sync = FALSE]),
                      m.cpu.cycles)

\* Cpu::step: [m, ret, ev]; ret is the value returned, ev the branch taken
\* ("halted", "idle" in SYNC, the interrupt dispatched, or "exec")
step(m) ==
    IF m.cpu.halted
    THEN [m |-> m, ret |-> 1, ev |-> "halted"]
    ELSE IF m.cpu.sync
            /\ ~(m.cpu.nmi_pending \/ m.cpu.firq_line \/ m.cpu.irq_line)
    THEN [m |-> add_cycles(m, 1), ret |-> 1, ev |-> "idle"]
    ELSE step_checked(check_interrupts([m EXCEPT !.cpu.sync = FALSE]),
                      m.cpu.cycles)

\* Cpu::new
Cpu_new ==
    [reg |-> Registers_new, cycles |-> 0, halted |-> FALSE, illegal |-> FALSE,
     nmi_armed |-> FALSE, nmi_pending |-> FALSE, firq_line |-> FALSE,
     irq_line |-> FALSE, cwai |-> FALSE, sync |-> FALSE]

\* Cpu::reset
reset_loaded(v) ==
    [v.m EXCEPT !.cpu =
        [Cpu_new EXCEPT
            !.reg.cc = set_firq_inhibit(set_irq_inhibit(@, TRUE), TRUE),
            !.reg.pc = v.val]]

\* reset that leaves the IRQ and FIRQ lines as the host last set them
reset_keeps_lines(m) ==
    [reset_loaded(read_word(m, VEC_RESET)) EXCEPT
        !.cpu.irq_line = m.cpu.irq_line, !.cpu.firq_line = m.cpu.firq_line]

reset(m) == reset_loaded(read_word(m, VEC_RESET))

\* Cpu::set_irq
set_irq(c, active) == [c EXCEPT !.irq_line = active]

\* Cpu::set_firq
set_firq(c, active) == [c EXCEPT !.firq_line = active]

\* trigger_nmi that latches the edge of an unarmed NMI as well, for SYNC to
\* see
trigger_nmi_latches_unarmed(c) ==
    IF c.nmi_armed \/ c.sync THEN [c EXCEPT !.nmi_pending = TRUE] ELSE c

\* trigger_nmi with the nmi_armed guard left out
trigger_nmi_unguarded(c) == [c EXCEPT !.nmi_pending = TRUE]

\* Cpu::trigger_nmi
trigger_nmi(c) == IF c.nmi_armed THEN [c EXCEPT !.nmi_pending = TRUE] ELSE c

(***************************************************************************)
(* Memory images.  As in the crate example and the test setup, memory is   *)
(* zeroed, the program is written at the address the reset vector names,   *)
(* and the CPU is reset.  Every program is followed by six one-byte RTI    *)
(* handlers, one per vector, so that each source has its own target.       *)
(***************************************************************************)
\* load address of the programs
Org == 1024

Handlers == <<59, 59, 59, 59, 59, 59>>

\* the handlers follow the program in the order NMI, IRQ, FIRQ, SWI, SWI2,
\* SWI3; the vectors lie in memory in the order SWI3, SWI2, FIRQ, IRQ, SWI,
\* NMI, RESET
MkImage(prog) ==
    LET h == Org + Len(prog)
        w(a) == <<Hi(a), Lo(a)>>
    IN [org |-> Org, code |-> prog \o Handlers,
        vecs |-> w(h + 5) \o w(h + 4) \o w(h + 2) \o w(h + 1) \o w(h + 3)
                 \o w(h) \o w(Org),
        fill |-> 0]

\* LDS #$0200 ; CWAI #$EF ; SYNC ; NOP ; RESET
ProgCwai == <<16, 206, 2, 0, 60, 239, 19, 18, 62>>
\* LDS #$0200 ; CWAI #$AF ; RESET  (I = F = 0 while waiting)
ProgCwaiOpen == <<16, 206, 2, 0, 60, 175, 62>>
\* LDS #$0200 ; LDD #$1122 ; LDX #$3344 ; LDY #$5566 ; LDU #$8788 ;
\* TFR A,DP ; ANDCC #$AF ; NOP ; RESET  (every register distinct, I = F = 0)
ProgRegs ==
    <<16, 206, 2, 0, 204, 17, 34, 142, 51, 68, 16, 142, 85, 102,
      206, 135, 136, 31, 139, 28, 175, 18, 62>>
\* LDS #$0200 ; ANDCC #$AF ; SYNC ; ANDCC #$EF ; SYNC ; RESET
ProgMasks == <<16, 206, 2, 0, 28, 175, 19, 28, 239, 19, 62>>
\* ANDCC #$AF ; NOP ; RESET  (S never written)
ProgBare == <<28, 175, 18, 62>>
\* 0x10 0x00 ; 0x11 0x00 ; 0x38 ; RESET  (one illegal opcode on each page)
ProgIllegal == <<16, 0, 17, 0, 56, 62>>
\* ANDCC #$BF ; SYNC ; NOP ; RESET  (I = 1, F = 0, S never written)
ProgSyncIrq == <<28, 191, 19, 18, 62>>
\* one instruction that writes S (or PULS, that moves it), then RESET
ProgLdsImm == <<16, 206, 2, 0, 62>>
ProgLdsDir == <<16, 222, 128, 62>>
ProgLdsIdx == <<16, 238, 132, 62>>
ProgLdsExt == <<16, 254, 4, 0, 62>>
ProgLeas == <<50, 232, 16, 62>>
ProgTfrS == <<31, 20, 62>>
ProgExgS == <<30, 20, 62>>
ProgPuluS == <<55, 64, 62>>
ProgIncS == <<166, 224, 62>>
ProgPuls == <<53, 6, 62>>

SLoaders == {ProgLdsImm, ProgLdsDir, ProgLdsIdx, ProgLdsExt, ProgLeas,
             ProgTfrS, ProgExgS, ProgPuluS, ProgIncS}

Programs ==
    {ProgCwai, ProgCwaiOpen, ProgRegs, ProgMasks, ProgBare, ProgIllegal,
     ProgSyncIrq, ProgPuls}
        \cup SLoaders

\* tests/cpu_tests.rs: setup
setup(prog) ==
    reset([cpu |-> Cpu_new, bus |-> [img |-> MkImage(prog), ram |-> <<>>],
           log |-> <<>>])

(***************************************************************************)
(* The state machine.  obs records the last call the host made: its name,  *)
(* the value it returned, the branch step took, the Cpu and the written    *)
(* memory before the call, and the bus accesses of the call (kind,         *)
(* address, byte).  call is the host's position: whether                   *)
(* a run loop is in progress (with its target and budget, the Cpu it was   *)
(* entered with and the steps it has made) and how many reset and          *)
(* interrupt-line calls it has made.                                       *)
(***************************************************************************)
Machine == [cpu |-> cpu, bus |-> bus, log |-> <<>>]

Observe(op, ret, ev, log) ==
    [op |-> op, ret |-> ret, ev |-> ev, pre |-> cpu, mem |-> bus.ram,
     log |-> log]

\* the state the host starts from: m is the machine setup returns
Loaded(m) ==
    /\ cpu = m.cpu
    /\ bus = m.bus
    /\ obs = [op |-> "reset", ret |-> 0, ev |-> "none", pre |-> Cpu_new,
              mem |-> <<>>, log |-> m.log]
    /\ call = [running |-> FALSE, target |-> 0, budget |-> 0, events |-> 0,
               entry |-> Cpu_new, steps |-> 0]

\* the host has called step: r is its [m, ret, ev]
Stepped(r) ==
    /\ cpu' = r.m.cpu
    /\ bus' = r.m.bus
    /\ obs' = Observe("step", r.ret, r.ev, r.m.log)

\* the host has called reset: m is the machine it left
WasReset(m) ==
    /\ cpu' = m.cpu
    /\ bus' = m.bus
    /\ obs' = Observe("reset", 0, "none", m.log)

Init ==
    \E prog \in Programs :
        Loaded(setup(prog))

Step ==
    /\ ~call.running
    /\ cpu.cycles < MaxCycles
    /\ Stepped(step(Machine))
    /\ UNCHANGED call

Reset ==
    /\ ~call.running
    /\ call.events < MaxEvents
    /\ WasReset(reset(Machine))
    /\ call' = [call EXCEPT !.events = @ + 1]

SetIrq(active) ==
    /\ ~call.running
    /\ call.events < MaxEvents
    /\ cpu' = set_irq(cpu, active)
    /\ obs' = Observe("set_irq", 0, "none", <<>>)
    /\ call' = [call EXCEPT !.events = @ + 1]
    /\ UNCHANGED bus

SetFirq(active) ==
    /\ ~call.running
    /\ call.events < MaxEvents
    /\ cpu' = set_firq(cpu, active)
    /\ obs' = Observe("set_firq", 0, "none", <<>>)
    /\ call' = [call EXCEPT !.events = @ + 1]
    /\ UNCHANGED bus

TriggerNmi ==
    /\ ~call.running
    /\ call.events < MaxEvents
    /\ cpu' = trigger_nmi(cpu)
    /\ obs' = Observe("trigger_nmi", 0, "none", <<>>)
    /\ call' = [call EXCEPT !.events = @ + 1]
    /\ UNCHANGED bus

\* Cpu::run, entry: target is computed
RunBegin(cycle_budget) ==
    /\ ~call.running
    /\ cpu.cycles < MaxCycles
    /\ call' = [call EXCEPT !.running = TRUE,
                            !.target = cpu.cycles + cycle_budget,
                            !.budget = cycle_budget,
                            !.entry = cpu]
    /\ obs' = Observe("run", 0, "begin", <<>>)
    /\ UNCHANGED <<cpu, bus>>

\* Cpu::run, one iteration of the while loop
RunStep ==
    /\ call.running
    /\ cpu.cycles < call.target /\ ~cpu.halted
    /\ Stepped(step(Machine))
    /\ call' = [call EXCEPT !.steps = @ + 1]

\* run returning the budget it was given, whatever the steps consumed
RunEnd_returns_budget ==
    /\ call.running
    /\ ~(cpu.cycles < call.target /\ ~cpu.halted)
    /\ obs' = Observe("run", call.budget, "end", <<>>)
    /\ call' = [call EXCEPT !.running = FALSE, !.target = 0, !.budget = 0,
                            !.entry = Cpu_new, !.steps = 0]
    /\ UNCHANGED <<cpu, bus>>

\* Cpu::run, loop exit and return value
RunEnd ==
    /\ call.running
    /\ ~(cpu.cycles < call.target /\ ~cpu.halted)
    /\ obs' = Observe("run", cpu.cycles - (call.target - call.budget),
                      "end", <<>>)
    /\ call' = [call EXCEPT !.running = FALSE, !.target = 0, !.budget = 0,
                            !.entry = Cpu_new, !.steps = 0]
    /\ UNCHANGED <<cpu, bus>>

Next ==
    \/ Step
    \/ Reset
    \/ \E active \in BOOLEAN : SetIrq(active)
    \/ \E active \in BOOLEAN : SetFirq(active)
    \/ TriggerNmi
    \/ \E cycle_budget \in 0..MaxBudget : RunBegin(cycle_budget)
    \/ RunStep
    \/ RunEnd

Spec == Init /\ [][Next]_vars

(***************************************************************************)
(* Properties.  They are stated over the last call (obs), the Cpu and the  *)
(* written memory before it (obs.pre, obs.mem) and the state after it.     *)
(***************************************************************************)
FirqEligible(c) == c.firq_line /\ ~firq_inhibit(c.reg.cc)
IrqEligible(c) == c.irq_line /\ ~irq_inhibit(c.reg.cc)

\* an unmasked interrupt is available to the Cpu c
Available(c) == c.nmi_pending \/ FirqEligible(c) \/ IrqEligible(c)

\* the last call was a step of a Cpu that was not halted
StepRan == obs.op = "step" /\ ~obs.pre.halted

\* the last call was a step that fetched and executed an instruction
Executed == obs.op = "step" /\ obs.ev = "exec"

\* the byte moved by the i-th bus access of the last call; the first access
\* of an executing step is its opcode fetch
Byte(i) == obs.log[i][3]

\* the big-endian word now in memory at address a
WordAt(a) == 256 * mem_read(bus, a) + mem_read(bus, Wrap16(a + 1))

\* opcodes with an indexed operand, per page
IndexedOp0 == (48..51) \cup ((96..111) \ {98, 107}) \cup (160..175) \cup (224..239)
IndexedOp1 == {163, 172, 174, 175, 238, 239}
IndexedOp2 == {163, 172}

\* an indexed post-byte that auto-increments or auto-decrements S
AutoS(post) == post >= 128 /\ (post \div 32) % 4 = 3 /\ post % 16 \in 0..3

\* the instruction the last step executed writes S: LDS, LEAS, TFR or EXG
\* with S as a destination, PULU with bit 6, or an indexed operand that
\* steps S
LoadsS ==
    \/ Byte(1) = 16 /\ Byte(2) \in {206, 222, 238, 254}
    \/ Byte(1) = 50
    \/ Byte(1) = 31 /\ Byte(2) % 16 = 4
    \/ Byte(1) = 30 /\ (Byte(2) % 16 = 4 \/ Byte(2) \div 16 = 4)
    \/ Byte(1) = 55 /\ TestBit(Byte(2), 64)
    \/ Byte(1) \in IndexedOp0 /\ AutoS(Byte(2))
    \/ Byte(1) = 16 /\ Byte(2) \in IndexedOp1 /\ AutoS(Byte(3))
    \/ Byte(1) = 17 /\ Byte(2) \in IndexedOp2 /\ AutoS(Byte(3))

\* the base-table entry of the instruction the last step executed
BaseEntry ==
    IF Byte(1) = 16 THEN PAGE1_CYCLES[Byte(2) + 1]
    ELSE IF Byte(1) = 17 THEN PAGE2_CYCLES[Byte(2) + 1]
    ELSE PAGE0_CYCLES[Byte(1) + 1]

\* C1: once CWAI has set the wait flag, a step made while no unmasked
\* interrupt is available leaves PC where it was.
C1_CwaiParksPC ==
    (obs.op = "step" /\ obs.pre.cwai /\ ~Available(obs.pre))
        => cpu.reg.pc = obs.pre.reg.pc

\* C2: the wait flags cwai and sync are never both true.
C2_WaitFlagsExclusive == ~(cpu.cwai /\ cpu.sync)

\* C3: NMI is never latched or dispatched before S is written: nmi_pending
\* implies nmi_armed, a trigger_nmi on an unarmed Cpu leaves nmi_pending
\* false, a step dispatches NMI only on an armed Cpu, and nmi_armed turns
\* true only in a step that executes an S-writing instruction.
C3_NmiNeedsArmed ==
    /\ cpu.nmi_pending => cpu.nmi_armed
    /\ (obs.op = "trigger_nmi" /\ ~obs.pre.nmi_armed) => ~cpu.nmi_pending
    /\ (obs.op = "step" /\ obs.ev = "nmi") => obs.pre.nmi_armed
    /\ (obs.op # "reset" /\ ~obs.pre.nmi_armed /\ cpu.nmi_armed)
           => (Executed /\ LoadsS)

\* a trigger_nmi was made before any write to S and was ignored
C3_IgnoredTrigger ==
    obs.op = "trigger_nmi" /\ ~obs.pre.nmi_armed /\ ~cpu.nmi_pending

\* C4: every instruction that writes S arms NMI, a trigger_nmi on an armed
\* Cpu latches nmi_pending, a pending NMI is dispatched by the next step of
\* a Cpu that is not halted whatever I and F are, and PULS leaves nmi_armed
\* as it was.
C4_SLoadArmsNmi ==
    /\ (Executed /\ LoadsS) => cpu.nmi_armed
    /\ (obs.op = "trigger_nmi" /\ obs.pre.nmi_armed) => cpu.nmi_pending
    /\ (StepRan /\ obs.pre.nmi_pending) => obs.ev = "nmi"
    /\ (Executed /\ Byte(1) = 53) => cpu.nmi_armed = obs.pre.nmi_armed

\* after PULU has loaded S, an NMI is dispatched with I = F = 1
C4_NmiAfterPuluS ==
    /\ bus.img.code[1] = 55
    /\ obs.op = "step" /\ obs.ev = "nmi"
    /\ irq_inhibit(obs.pre.reg.cc) /\ firq_inhibit(obs.pre.reg.cc)

\* the last step dispatched exactly the source src, through vector vec: PC
\* is the word at vec, the lines are as they were, and the NMI latch is
\* cleared by an NMI dispatch only
Took(src, vec) ==
    /\ obs.ev = src
    /\ cpu.reg.pc = WordAt(vec)
    /\ cpu.firq_line = obs.pre.firq_line
    /\ cpu.irq_line = obs.pre.irq_line
    /\ cpu.nmi_pending = (obs.pre.nmi_pending /\ src # "nmi")

\* C5: a step of a Cpu that is not halted dispatches exactly one source,
\* the highest eligible in the order NMI, FIRQ, IRQ, also when it leaves
\* SYNC.
C5_PriorityOrder ==
    StepRan =>
        /\ obs.pre.nmi_pending => Took("nmi", VEC_NMI)
        /\ (~obs.pre.nmi_pending /\ FirqEligible(obs.pre))
               => Took("firq", VEC_FIRQ)
        /\ (~obs.pre.nmi_pending /\ ~FirqEligible(obs.pre)
               /\ IrqEligible(obs.pre)) => Took("irq", VEC_IRQ)

\* the step that left SYNC had all three sources eligible and took NMI
C5_AllEligibleInSync ==
    /\ StepRan /\ obs.pre.sync
    /\ obs.pre.nmi_pending /\ FirqEligible(obs.pre) /\ IrqEligible(obs.pre)
    /\ obs.ev = "nmi"

\* C6: no step dispatches IRQ while I = 1 and none dispatches FIRQ while
\* F = 1, in SYNC and in CWAI as elsewhere.
C6_MasksRespected ==
    obs.op = "step" =>
        /\ obs.ev = "irq" => ~irq_inhibit(obs.pre.reg.cc)
        /\ obs.ev = "firq" => ~firq_inhibit(obs.pre.reg.cc)

\* a step made in CWAI with the FIRQ line asserted and F = 1 did not
\* dispatch it
C6_MaskedFirqInCwai ==
    /\ StepRan /\ obs.pre.cwai
    /\ obs.pre.firq_line /\ firq_inhibit(obs.pre.reg.cc)
    /\ obs.ev = "exec"

\* C7: the RESET instruction sets halted, and no call but reset clears it.
C7_HaltedIsTerminal ==
    /\ (Executed /\ Byte(1) = 62) => cpu.halted
    /\ (obs.op # "reset" /\ obs.pre.halted) => cpu.halted

\* a halted Cpu with an NMI pending was stepped and stayed halted
C7_HaltedWithNmiPending ==
    obs.op = "step" /\ obs.pre.halted /\ obs.pre.nmi_pending /\ cpu.halted

\* C8: a step of a halted Cpu returns 1 and changes nothing: the Cpu
\* (registers, CC, cycles, illegal, latches, lines, wait flags) and memory
\* are as before, and the bus is not touched.
C8_HaltedStepIsNoop ==
    (obs.op = "step" /\ obs.pre.halted)
        => (obs.ret = 1 /\ cpu = obs.pre /\ bus.ram = obs.mem
            /\ obs.log = <<>>)

\* a halted Cpu with the IRQ line asserted and memory written was stepped
C8_HaltedStepTaken ==
    obs.op = "step" /\ obs.pre.halted /\ obs.pre.irq_line /\ obs.mem # <<>>

\* C9: reset leaves PC the big-endian word at 0xFFFE, CC = I + F, every
\* other register 0, cycles 0 and every flag, latch and line false, and
\* writes nothing to memory.
C9_ResetState ==
    obs.op = "reset" =>
        /\ cpu.reg = [d |-> 0, x |-> 0, y |-> 0, u |-> 0, s |-> 0,
                      pc |-> WordAt(VEC_RESET), dp |-> 0, cc |-> CC_I + CC_F]
        /\ cpu.cycles = 0
        /\ ~cpu.halted /\ ~cpu.illegal /\ ~cpu.nmi_armed /\ ~cpu.nmi_pending
        /\ ~cpu.firq_line /\ ~cpu.irq_line /\ ~cpu.cwai /\ ~cpu.sync
        /\ bus.ram = obs.mem

\* reset was called in CWAI with the IRQ line asserted and memory written
C9_ResetFromCwai ==
    obs.op = "reset" /\ obs.pre.cwai /\ obs.pre.irq_line /\ obs.mem # <<>>

\* C10: every instruction a step executes increases cycles, by at least
\* the base-table entry of its opcode.
C10_CyclesGrow ==
    Executed => (/\ cpu.cycles > obs.pre.cycles
                 /\ cpu.cycles - obs.pre.cycles >= BaseEntry)


\* C11: run returns exactly the cycles consumed since it was entered; when
\* it returns, the Cpu is halted or that amount is at least the budget; a
\* run with budget 0 or entered on a halted Cpu makes no step and returns 0;
\* and a step is made inside run only while the Cpu is not halted and fewer
\* cycles than the budget have been consumed.
C11_RunReturn ==
    [][/\ (call.running /\ ~call'.running) =>
            /\ obs'.ret = cpu.cycles - call.entry.cycles
            /\ cpu.halted \/ obs'.ret >= call.budget
            /\ (call.budget = 0 \/ call.entry.halted)
                   => (call.steps = 0 /\ obs'.ret = 0 /\ cpu = call.entry)
       /\ (call.running /\ call'.steps > call.steps) =>
            /\ ~cpu.halted
            /\ cpu.cycles - call.entry.cycles < call.budget]_vars

\* a run has returned more than it was asked for, with the Cpu not halted
C11_RunOvershoot ==
    /\ obs.op = "run" /\ obs.ev = "end"
    /\ obs.ret > MaxBudget
    /\ ~cpu.halted

\* page-0 opcode bytes that are neither an instruction nor a page prefix
IllegalPage0 ==
    {2, 11, 20, 21, 24, 27, 56, 66, 75, 78, 82, 91, 94, 98, 107, 114, 123,
     135, 143, 199, 205, 207}

\* second bytes that are an instruction after the prefix 0x10 / 0x11
LegalPage1 ==
    (33..47) \cup {63, 131, 140, 142, 147, 156, 158, 159, 163, 172, 174, 175,
                   179, 188, 190, 191, 206, 222, 223, 238, 239, 254, 255}
LegalPage2 == {63, 131, 140, 147, 156, 163, 172, 179, 188}

\* the last step executed an opcode that is not an instruction
IllegalOp ==
    \/ Byte(1) \in IllegalPage0
    \/ Byte(1) = 16 /\ Byte(2) \notin LegalPage1
    \/ Byte(1) = 17 /\ Byte(2) \notin LegalPage2

\* the bytes of an opcode: one, or two with a page prefix
OpcodeLen == IF Byte(1) \in {16, 17} THEN 2 ELSE 1

\* C12: executing an opcode that is not an instruction, on any page, sets
\* illegal, does not halt, and leaves PC at the byte that follows it.
C12_IllegalMarked ==
    (Executed /\ IllegalOp) =>
        /\ cpu.illegal
        /\ ~cpu.halted
        /\ cpu.reg.pc = Wrap16(obs.pre.reg.pc + OpcodeLen)

\* C13: a step made in SYNC while no NMI is pending and both lines are low
\* returns 1, adds exactly 1 to cycles, keeps sync set and changes nothing
\* else: registers, flags and memory are as before and the bus is not
\* touched, whatever I and F are.
C13_SyncIdles ==
    (/\ obs.op = "step" /\ obs.pre.sync
     /\ ~obs.pre.nmi_pending /\ ~obs.pre.firq_line /\ ~obs.pre.irq_line)
        => /\ obs.ret = 1
           /\ cpu = [obs.pre EXCEPT !.cycles = @ + 1]
           /\ cpu.sync
           /\ bus.ram = obs.mem
           /\ obs.log = <<>>

\* an idle step was made in SYNC with I = 0 and F = 1
C13_IdleStepTaken ==
    /\ obs.op = "step" /\ obs.pre.sync
    /\ ~obs.pre.nmi_pending /\ ~obs.pre.firq_line /\ ~obs.pre.irq_line
    /\ ~irq_inhibit(obs.pre.reg.cc) /\ firq_inhibit(obs.pre.reg.cc)
    /\ cpu.cycles = obs.pre.cycles + 1

\* the last step was made in SYNC with no NMI pending and a line asserted,
\* every asserted line being masked
MaskedWake ==
    /\ obs.op = "step" /\ obs.pre.sync /\ ~obs.pre.nmi_pending
    /\ obs.pre.irq_line \/ obs.pre.firq_line
    /\ obs.pre.irq_line => irq_inhibit(obs.pre.reg.cc)
    /\ obs.pre.firq_line => firq_inhibit(obs.pre.reg.cc)

\* C14: a step made in SYNC when the only asserted lines are masked ends
\* the wait and executes the instruction that follows SYNC: its first bus
\* access is the opcode fetch at PC, nothing is dispatched, and sync is
\* clear afterwards (unless that instruction is SYNC again); when the
\* instruction is NOP, S, CC and memory are untouched and PC is one more.
C14_MaskedWakeFallsThrough ==
    MaskedWake =>
        /\ obs.ev = "exec"
        /\ obs.log[1][1] = "r" /\ obs.log[1][2] = obs.pre.reg.pc
        /\ cpu.sync = (Byte(1) = 19)
        /\ Byte(1) = 18 =>
              /\ cpu = [obs.pre EXCEPT !.sync = FALSE,
                                       !.reg.pc = Wrap16(@ + 1),
                                       !.cycles = @ + 2]
              /\ bus.ram = obs.mem
              /\ Len(obs.log) = 1

\* SYNC was left on an asserted IRQ line with I = 1, and the NOP after it
\* was executed
C14_MaskedIrqWake ==
    /\ MaskedWake /\ obs.pre.irq_line /\ ~obs.pre.firq_line
    /\ Byte(1) = 18

\* the last call was a trigger_nmi made in SYNC on a Cpu whose NMI is not
\* armed
UnarmedNmiInSync ==
    obs.op = "trigger_nmi" /\ obs.pre.sync /\ ~obs.pre.nmi_armed

\* C15, as stated: after a trigger_nmi made in SYNC while NMI is not armed,
\* the next step clears sync and executes the instruction following SYNC,
\* without dispatching the NMI.
C15_UnarmedNmiEndsSync ==
    [][(UnarmedNmiInSync /\ obs'.op = "step") =>
           (/\ obs'.ev = "exec"
            /\ obs'.log[1][2] = cpu.reg.pc
            /\ cpu'.sync = (obs'.log[1][3] = 19))]_vars

\* C15, as the code has it: a trigger_nmi made in SYNC while NMI is not
\* armed is ignored altogether; if both lines are low the next step idles
\* (sync stays set, PC is unchanged, cycles grows by 1, no bus access), and
\* in no case is an NMI dispatched.
C15_UnarmedNmiIgnoredInSync ==
    [][UnarmedNmiInSync =>
           /\ cpu = obs.pre
           /\ obs'.op = "step" => obs'.ev # "nmi"
           /\ (obs'.op = "step" /\ ~cpu.firq_line /\ ~cpu.irq_line) =>
                  /\ obs'.ev = "idle" /\ obs'.ret = 1
                  /\ cpu' = [cpu EXCEPT !.cycles = @ + 1]
                  /\ bus' = bus
                  /\ obs'.log = <<>>]_vars

\* a trigger_nmi was made in SYNC, NMI not armed, both lines low
C15_UnarmedTriggerInSync ==
    UnarmedNmiInSync /\ ~cpu.firq_line /\ ~cpu.irq_line

\* the last step dispatched an interrupt
Dispatched == obs.op = "step" /\ obs.ev \in {"nmi", "firq", "irq"}

\* the vector of the source the last step dispatched
TakenVector ==
    CASE obs.ev = "nmi" -> VEC_NMI
      [] obs.ev = "firq" -> VEC_FIRQ
      [] obs.ev = "irq" -> VEC_IRQ

\* the mask bits a dispatch sets: I for IRQ, I and F for NMI and FIRQ
TakenMask == IF obs.ev = "irq" THEN CC_I ELSE CC_I + CC_F

\* C16: a dispatch made while cwai is set pushes nothing (S and memory are
\* unchanged, the bus is only read, at the vector), clears cwai, sets the
\* masks of the source and no other bit of CC, loads PC from the vector,
\* and clears the NMI latch if the source is NMI.
C16_CwaiDispatchSkipsPush ==
    (Dispatched /\ obs.pre.cwai) =>
        /\ cpu.reg.s = obs.pre.reg.s
        /\ bus.ram = obs.mem
        /\ obs.log = <<<<"r", TakenVector, mem_read(bus, TakenVector)>>,
                       <<"r", TakenVector + 1,
                         mem_read(bus, TakenVector + 1)>>>>
        /\ ~cpu.cwai
        /\ cpu.reg.cc = BitOr(obs.pre.reg.cc, TakenMask)
        /\ cpu.reg.pc = WordAt(TakenVector)
        /\ obs.ev = "nmi" => ~cpu.nmi_pending

\* an IRQ was dispatched in CWAI with F = 0, and F is still 0
C16_IrqTakenInCwai ==
    /\ Dispatched /\ obs.pre.cwai /\ obs.ev = "irq"
    /\ ~firq_inhibit(obs.pre.reg.cc) /\ ~firq_inhibit(cpu.reg.cc)

\* the byte now in memory i places above the stack pointer S
Stacked(i) == mem_read(bus, Wrap16(cpu.reg.s + i))

\* the entire state of the Cpu c as it lies on the stack, from the lowest
\* address up: CC (with E set), A, B, DP, X, Y, U, PC, words big-endian
EntireFrame(c) ==
    <<BitOr(c.reg.cc, CC_E), Hi(c.reg.d), Lo(c.reg.d), c.reg.dp,
      Hi(c.reg.x), Lo(c.reg.x), Hi(c.reg.y), Lo(c.reg.y),
      Hi(c.reg.u), Lo(c.reg.u), Hi(c.reg.pc), Lo(c.reg.pc)>>

\* C17: an IRQ or NMI dispatch with cwai clear pushes the entire state, 12
\* bytes, with the stacked CC holding E = 1 and the I and F of before, then
\* sets I (IRQ) or I and F (NMI) in CC next to E, loads PC from the word at
\* 0xFFF8 (IRQ) or 0xFFFC (NMI), adds 19 to cycles and leaves D, X, Y, U
\* and DP as they were.
C17_EntireDispatch ==
    (Dispatched /\ obs.ev \in {"irq", "nmi"} /\ ~obs.pre.cwai) =>
        /\ cpu.reg.s = Wrap16(obs.pre.reg.s - 12)
        /\ \A i \in 0..11 : Stacked(i) = EntireFrame(obs.pre)[i + 1]
        /\ cpu.reg.cc = BitOr(BitOr(obs.pre.reg.cc, CC_E), TakenMask)
        /\ cpu.reg.pc = WordAt(IF obs.ev = "irq" THEN 65528 ELSE 65532)
        /\ cpu.cycles = obs.pre.cycles + 19
        /\ cpu.reg.d = obs.pre.reg.d /\ cpu.reg.x = obs.pre.reg.x
        /\ cpu.reg.y = obs.pre.reg.y /\ cpu.reg.u = obs.pre.reg.u
        /\ cpu.reg.dp = obs.pre.reg.dp

\* an IRQ was dispatched with every register distinct, E and F clear
C17_IrqTakenWithRegisters ==
    /\ Dispatched /\ obs.ev = "irq" /\ ~obs.pre.cwai
    /\ obs.pre.reg.d = 4386 /\ obs.pre.reg.x = 13124 /\ obs.pre.reg.y = 21862
    /\ obs.pre.reg.u = 34696 /\ obs.pre.reg.dp = 17 /\ obs.pre.reg.cc = 8

\* C18: a FIRQ dispatch with cwai clear saves a short frame: S goes down
\* by 3, CC with E = 0 lies at the new S and PC big-endian above it (three
\* writes, PC low byte first), then I and F are set in CC next to the
\* cleared E, PC is loaded from the word at 0xFFF6, cycles grows by 10, and
\* D, DP, X, Y, U are as they were.
C18_FirqShortFrame ==
    (Dispatched /\ obs.ev = "firq" /\ ~obs.pre.cwai) =>
        /\ cpu.reg.s = Wrap16(obs.pre.reg.s - 3)
        /\ Stacked(0) = BitAnd(obs.pre.reg.cc, 127)
        /\ Stacked(1) = Hi(obs.pre.reg.pc)
        /\ Stacked(2) = Lo(obs.pre.reg.pc)
        /\ Len(obs.log) = 5
        /\ \A i \in 1..3 :
               /\ obs.log[i][1] = "w"
               /\ obs.log[i][2] = Wrap16(obs.pre.reg.s - i)
        /\ cpu.reg.cc = BitOr(BitAnd(obs.pre.reg.cc, 127), CC_I + CC_F)
        /\ cpu.reg.pc = WordAt(65526)
        /\ cpu.cycles = obs.pre.cycles + 10
        /\ cpu.reg.d = obs.pre.reg.d /\ cpu.reg.x = obs.pre.reg.x
        /\ cpu.reg.y = obs.pre.reg.y /\ cpu.reg.u = obs.pre.reg.u
        /\ cpu.reg.dp = obs.pre.reg.dp

\* a FIRQ was dispatched while E was set in CC
C18_FirqTakenWithEntireSet ==
    Dispatched /\ obs.ev = "firq" /\ ~obs.pre.cwai /\ entire(obs.pre.reg.cc)

\* C19: NMI is an edge latch and IRQ / FIRQ are levels.  An NMI dispatch
\* clears nmi_pending and only trigger_nmi sets it, so one trigger gives at
\* most one dispatch; irq_line and firq_line change only in set_irq,
\* set_firq and reset, never in a step; and when a step has cleared I while
\* the IRQ line is asserted and nothing higher is eligible, the next step
\* dispatches IRQ.
C19_EdgeAndLevels ==
    [][/\ (obs'.op = "step" /\ obs'.ev = "nmi") => ~cpu'.nmi_pending
       /\ (cpu'.nmi_pending /\ ~cpu.nmi_pending) => obs'.op = "trigger_nmi"
       /\ cpu'.irq_line # cpu.irq_line => obs'.op \in {"set_irq", "reset"}
       /\ cpu'.firq_line # cpu.firq_line => obs'.op \in {"set_firq", "reset"}
       /\ (/\ obs.op = "step"
           /\ irq_inhibit(obs.pre.reg.cc) /\ ~irq_inhibit(cpu.reg.cc)
           /\ cpu.irq_line /\ ~cpu.halted
           /\ ~cpu.nmi_pending /\ ~FirqEligible(cpu)
           /\ obs'.op = "step")
              => (obs'.ev = "irq" /\ cpu'.irq_line)]_vars

\* the host has made one call, a set_irq, and IRQ is dispatched a second
\* time: E is set in CC, as the RTI of the first handler left it
C19_IrqTakenAgain ==
    /\ Dispatched /\ obs.ev = "irq" /\ call.events = 1
    /\ entire(obs.pre.reg.cc) /\ cpu.irq_line

\* the addresses of the frame the last dispatch pushed: 3 bytes for FIRQ,
\* 12 for NMI and IRQ
TakenFrame ==
    {Wrap16(obs.pre.reg.s - i) :
        i \in 1..(IF obs.ev = "firq" THEN 3 ELSE 12)}

\* the frame of the last dispatch lies clear of the vector and of the first
\* byte of the handler
FrameClear ==
    TakenFrame \cap {TakenVector, TakenVector + 1, cpu.reg.pc} = {}

\* C20: interrupt entry and RTI are inverse.  When a step has dispatched
\* NMI, IRQ or FIRQ with cwai clear, its frame clear of the vector and the
\* handler, and the next step executes an RTI (the first instruction of the
\* handler), then PC, S, D, DP, X, Y and U are again what they were before
\* the dispatch, and so is CC but for E: set after NMI and IRQ, clear after
\* FIRQ.
C20_RtiUndoesDispatch ==
    [][(/\ Dispatched /\ ~obs.pre.cwai /\ FrameClear
        /\ obs'.op = "step" /\ obs'.ev = "exec"
        /\ obs'.log[1] = <<"r", cpu.reg.pc, 59>>)
           => cpu'.reg =
                  [obs.pre.reg EXCEPT
                      !.cc = IF obs.ev = "firq" THEN BitAnd(@, 127)
                             ELSE BitOr(@, CC_E)]]_vars

\* the RTI of a handler has returned to the program with every register
\* distinct and the stack back at 0x0200
C20_ReturnedWithRegisters ==
    /\ Executed /\ Byte(1) = 59 /\ ~obs.pre.cwai
    /\ cpu.reg.d = 4386 /\ cpu.reg.x = 13124 /\ cpu.reg.y = 21862
    /\ cpu.reg.u = 34696 /\ cpu.reg.dp = 17 /\ cpu.reg.s = 512
    /\ cpu.reg.pc = Org + 21

(***************************************************************************)
(* The instruction-level specification.  As the tests of                   *)
(* tests/cpu_tests.rs do, the host loads a short program (with the data    *)
(* bytes it reads behind it), resets the CPU, assigns the public register  *)
(* fields and then steps; between two steps it may overwrite the registers *)
(* again.  obs.op = "poke" says that the host has overwritten registers    *)
(* since the call the other fields of obs describe.                        *)
(***************************************************************************)
\* how many times the host overwrites the registers between steps
MaxPokes == 1

\* the register file with d, x, y, u, s, dp and cc assigned by the host
Regs(d, x, y, u, s, dp, cc) ==
    [d |-> d, x |-> x, y |-> y, u |-> u, s |-> s, pc |-> 0, dp |-> dp,
     cc |-> cc]

\* tests/cpu_tests.rs, e.g. `cpu.reg.s = 0x8000;` after setup: the host
\* assigns the register fields, the program counter excepted
with_regs(m, r) == [m EXCEPT !.cpu.reg = [r EXCEPT !.pc = m.cpu.reg.pc]]

\* a case is a program and the registers it starts with
Case(prog, r) == [prog |-> prog, reg |-> r]

\* the RAM addresses the S and U stacks of the cases start at
StackS == 32768
StackU == StackS - 256

\* the registers most cases start with, cc excepted
RegsCc(cc) == Regs(4386, 13124, 21862, StackU, StackS, 23, cc)

\* rti_short: RTI, the RESET it returns to, and the frame S points at; the
\* short frame is CC, PC and the entire frame CC, A, B, DP, X, Y, U, PC
ProgRti(frame) == <<59, 62>> \o frame

FrameShort(cc) == <<cc, Hi(Org + 1), Lo(Org + 1), 211, 18, 52, 86, 120, 154,
                    188, 222, 240>>
FrameEntire(cc) == <<cc, 161, 178, 211, 18, 52, 86, 120, 154, 188,
                     Hi(Org + 1), Lo(Org + 1)>>

CasesRti ==
    {Case(ProgRti(IF entire(f) THEN FrameEntire(f) ELSE FrameShort(f)),
          Regs(4386, 13124, 21862, StackU, Org + 2, 23, cc)) :
        f \in {0, 127, 128, 213}, cc \in {0, 128, 255}}

\* swi_instruction: SWI, SWI2 or SWI3 and the RESET its handler returns to
CasesSwi ==
    {Case(op \o <<62>>, RegsCc(cc)) :
        op \in {<<63>>, <<16, 63>>, <<17, 63>>}, cc \in {0, 42, 80, 128, 255}}

\* pshs_puls_multiple: a push of the registers the mask post selects, the
\* pull with the same mask, and RESET; on the S stack and on the U stack
CasesStack ==
    {Case(<<psh, post, psh + 1, post, 62>>, RegsCc(42)) :
        psh \in {52, 54}, post \in 0..255}

\* bsr_rts, jsr_extended_rts: a call, the RESET it returns to and the RTS
\* it calls; BSR forward and (behind a BRA) backward, LBSR, JSR direct (DP
\* = 4), JSR ,X (X = Org + 3) and JSR extended
ProgBsr == <<141, 1, 62, 57>>
ProgBsrBack == <<32, 1, 57, 141, 253, 62>>
ProgLbsr == <<23, 0, 1, 62, 57>>
ProgJsrDir == <<157, 3, 62, 57>>
ProgJsrIdx == <<173, 132, 62, 57>>
ProgJsrExt == <<189, Hi(Org + 4), Lo(Org + 4), 62, 57>>

CasesCall ==
    {Case(prog, Regs(4386, Org + 3, 21862, StackU, s, Hi(Org), 42)) :
        prog \in {ProgBsr, ProgBsrBack, ProgLbsr, ProgJsrDir, ProgJsrIdx,
                  ProgJsrExt},
        s \in {StackS, 1, 0}}

\* the indexed post-bytes with bit 7 set and an undefined sub-mode: 7, 10
\* or 14 with or without the indirect bit, 15 without it
IllegalPost(post) ==
    /\ post >= 128
    /\ \/ post % 16 \in {7, 10, 14}
       \/ post % 16 = 15 /\ ~TestBit(post, 16)

\* STD >$0000, then LEAX or LDA with an undefined indexed post-byte, RESET
CasesIllegalPost ==
    {Case(<<253, 0, 0, op, post, 62>>, RegsCc(42)) :
        op \in {48, 166}, post \in {p \in 128..255 : IllegalPost(p)}}

\* STX >a, LDD >a and RESET: write_word and read_word at the address a,
\* with X the word written
CasesWord ==
    {Case(<<191, Hi(a), Lo(a), 252, Hi(a), Lo(a), 62>>,
          Regs(4386, v, 21862, StackU, StackS, 23, 42)) :
        a \in {0, 255, 16383, StackS, 65534, 65535},
        v \in {0, 255, 4660, 32769, 65280, 65535}}

\* DEC, INC and TST: column 10, 12 and 13 of the opcode rows 0x0 (direct),
\* 0x4 (A), 0x5 (B), 0x6 (indexed) and 0x7 (extended)
FrameColumns == {10, 12, 13}

\* the operand values at which N, Z or V of an increment, a decrement or a
\* test changes
Edges == {0, 1, 85, 126, 127, 128, 129, 170, 254, 255}

\* C set alone, and everything but C set
FrameCc == {1, 254}

\* the register forms with every value of the accumulator, and the memory
\* forms (direct with DP = 4, ,X and extended) with the operand byte v
\* behind the RESET that ends the program
CasesFrame ==
    {Case(<<64 + col, 62>>, Regs(256 * v + 90, 0, 0, StackU, StackS, 0, cc)) :
        col \in FrameColumns, v \in 0..255, cc \in FrameCc}
    \cup
    {Case(<<80 + col, 62>>, Regs(23040 + v, 0, 0, StackU, StackS, 0, cc)) :
        col \in FrameColumns, v \in 0..255, cc \in FrameCc}
    \cup
    {Case(<<col, 3, 62, v>>, Regs(0, 0, 0, StackU, StackS, Hi(Org), cc)) :
        col \in FrameColumns, v \in Edges, cc \in FrameCc}
    \cup
    {Case(<<96 + col, 132, 62, v>>,
          Regs(0, Org + 3, 0, StackU, StackS, 0, cc)) :
        col \in FrameColumns, v \in Edges, cc \in FrameCc}
    \cup
    {Case(<<112 + col, Hi(Org + 4), Lo(Org + 4), 62, v>>,
          Regs(0, 0, 0, StackU, StackS, 0, cc)) :
        col \in FrameColumns, v \in Edges, cc \in FrameCc}

\* tfr_a_to_b, exg_a_b: EXG or TFR with the post-byte post, and RESET
CasesTransfer ==
    {Case(<<op, post, 62>>, RegsCc(42)) : op \in {30, 31}, post \in 0..255}

Cases == CasesRti \cup CasesSwi \cup CasesStack \cup CasesCall \cup CasesIllegalPost \cup CasesWord \cup CasesFrame \cup CasesTransfer

InitInstr ==
    \E c \in Cases :
        Loaded(with_regs(setup(c.prog), c.reg))

\* the host overwrites the registers, the program counter excepted
Poke(r) ==
    /\ call.events < MaxPokes
    /\ obs.op = "step"
    /\ ~cpu.halted
    /\ cpu' = with_regs(Machine, r).cpu
    /\ obs' = [obs EXCEPT !.op = "poke"]
    /\ call' = [call EXCEPT !.events = @ + 1]
    /\ UNCHANGED bus

\* what the host overwrites the registers with: everything
\* but the stack pointer the program uses
Clobbers ==
    {Regs(42405, 49374, 61680, cpu.reg.u, cpu.reg.s, 90, 42),
     Regs(0, 0, 0, 4660, cpu.reg.s, 0, 0),
     Regs(65535, 65535, 65535, cpu.reg.u, 4660, 255, 255)}

NextInstr ==
    \/ Step
    \/ \E r \in Clobbers : Poke(r)

SpecInstr == InitInstr /\ [][NextInstr]_vars

\* the last call was a step that executed the one-byte opcode op
Ran(op) == Executed /\ Byte(1) = op

\* the byte in memory at offset i above the S the last call started with
Frame(i) == mem_read(bus, Wrap16(obs.pre.reg.s + i))
FrameWord(i) == WordAt(Wrap16(obs.pre.reg.s + i))

\* the last call left A, B, DP, X, Y and U alone
KeptRegisters ==
    /\ cpu.reg.d = obs.pre.reg.d /\ cpu.reg.dp = obs.pre.reg.dp
    /\ cpu.reg.x = obs.pre.reg.x /\ cpu.reg.y = obs.pre.reg.y
    /\ cpu.reg.u = obs.pre.reg.u

\* C21: RTI pulls CC from S first and decides on the E bit of the pulled
\* byte: with E clear it pulls only PC (S grows by 3, A, B, DP, X, Y and U
\* keep their values, 6 cycles), with E set it pulls A, B, DP, X, Y, U and
\* then PC (S grows by 12, 15 cycles).
C21_RtiDecidesOnPulledE ==
    Ran(59) =>
        /\ obs.log[2] = <<"r", obs.pre.reg.s, Frame(0)>>
        /\ cpu.reg.cc = Frame(0)
        /\ IF entire(Frame(0))
           THEN /\ Len(obs.log) = 13
                /\ cpu.reg.s = Wrap16(obs.pre.reg.s + 12)
                /\ cpu.reg.d = 256 * Frame(1) + Frame(2)
                /\ cpu.reg.dp = Frame(3)
                /\ cpu.reg.x = FrameWord(4)
                /\ cpu.reg.y = FrameWord(6)
                /\ cpu.reg.u = FrameWord(8)
                /\ cpu.reg.pc = FrameWord(10)
                /\ cpu.cycles = obs.pre.cycles + 15
           ELSE /\ Len(obs.log) = 4
                /\ cpu.reg.s = Wrap16(obs.pre.reg.s + 3)
                /\ KeptRegisters
                /\ cpu.reg.pc = FrameWord(1)
                /\ cpu.cycles = obs.pre.cycles + 6

\* an RTI entered with E set in CC that pulled a CC with E clear
C21_ShortFrameWithEntireSet ==
    /\ Ran(59)
    /\ entire(obs.pre.reg.cc)
    /\ ~entire(cpu.reg.cc)
    /\ cpu.reg.s = obs.pre.reg.s + 3
    /\ cpu.reg.pc = Org + 1

\* the last call was a step that executed SWI (n = 0), SWI2 (n = 1) or
\* SWI3 (n = 2)
RanSwi(n) ==
    /\ Executed
    /\ \/ n = 0 /\ Byte(1) = 63
       \/ n = 1 /\ Byte(1) = 16 /\ Byte(2) = 63
       \/ n = 2 /\ Byte(1) = 17 /\ Byte(2) = 63

\* the Cpu the last call started with, its PC moved n bytes on
PreAt(n) == [obs.pre EXCEPT !.reg.pc = Wrap16(@ + n)]

\* the last call left the entire state of the Cpu c on the S stack, 12
\* bytes below the S it started with
PushedEntire(c) ==
    /\ cpu.reg.s = Wrap16(obs.pre.reg.s - 12)
    /\ \A i \in 0..11 : Stacked(i) = EntireFrame(c)[i + 1]

\* C22: SWI, SWI2 and SWI3 set E, push the entire state (S falls by 12 and
\* memory from the new S upward holds CC with E set, A, B, DP, X, Y, U and
\* the PC after the instruction, words big-endian) and load PC from the
\* word at 0xFFFA, 0xFFF4 and 0xFFF2; SWI alone sets I and F, SWI2 and SWI3
\* leave them as they were.
C22_SwiPushesEntireState ==
    /\ RanSwi(0) =>
        /\ PushedEntire(PreAt(1))
        /\ cpu.reg.pc = WordAt(65530)
        /\ cpu.reg.cc = BitOr(obs.pre.reg.cc, CC_E + CC_F + CC_I)
        /\ KeptRegisters
    /\ RanSwi(1) =>
        /\ PushedEntire(PreAt(2))
        /\ cpu.reg.pc = WordAt(65524)
        /\ cpu.reg.cc = BitOr(obs.pre.reg.cc, CC_E)
        /\ KeptRegisters
    /\ RanSwi(2) =>
        /\ PushedEntire(PreAt(2))
        /\ cpu.reg.pc = WordAt(65522)
        /\ cpu.reg.cc = BitOr(obs.pre.reg.cc, CC_E)
        /\ KeptRegisters

\* an SWI3 entered with E, F and I clear
C22_Swi3Unmasked ==
    /\ RanSwi(2)
    /\ obs.pre.reg.cc = 42
    /\ cpu.reg.cc = 170
    /\ cpu.reg.pc = Org + 3 + 5
    /\ cpu.reg.s = StackS - 12

\* the bytes seq if the mask post has the bit set, else none
Sel(post, bit, seq) == IF TestBit(post, bit) THEN seq ELSE <<>>

\* the registers of the Cpu c that the mask post selects, as bytes from
\* the lowest address up: CC, A, B, DP, X, Y, the other stack pointer w, PC
PushImage(post, c, w) ==
    Sel(post, 1, <<c.reg.cc>>) \o Sel(post, 2, <<Hi(c.reg.d)>>)
        \o Sel(post, 4, <<Lo(c.reg.d)>>) \o Sel(post, 8, <<c.reg.dp>>)
        \o Sel(post, 16, <<Hi(c.reg.x), Lo(c.reg.x)>>)
        \o Sel(post, 32, <<Hi(c.reg.y), Lo(c.reg.y)>>)
        \o Sel(post, 64, <<Hi(w), Lo(w)>>)
        \o Sel(post, 128, <<Hi(c.reg.pc), Lo(c.reg.pc)>>)

\* the last call, after its two fetches, wrote the bytes img downwards from
\* the address below sp, the last byte of img first, and nothing else
PushedDown(img, sp) ==
    /\ Len(obs.log) = 2 + Len(img)
    /\ \A i \in 1..Len(img) :
        /\ obs.log[2 + i] = <<"w", Wrap16(sp - i), img[Len(img) - i + 1]>>
        /\ mem_read(bus, Wrap16(sp - i)) = img[Len(img) - i + 1]
    /\ cpu.cycles = obs.pre.cycles + 5 + Len(img)

\* C24: PSHS pushes exactly the registers its mask selects in the order PC,
\* U, Y, X, DP, B, A, CC, so that the register of the lowest set bit lies
\* at the lowest address (PSHU: onto U, with S in the place of U); the
\* stack pointer falls by the number of bytes pushed, no other register
\* changes, and the step costs 5 cycles plus one per byte pushed.
C24_PushOrderAndCost ==
    /\ Ran(52) =>
        /\ PushedDown(PushImage(Byte(2), PreAt(2), obs.pre.reg.u),
                      obs.pre.reg.s)
        /\ cpu.reg =
            [PreAt(2).reg EXCEPT
                !.s = Wrap16(@ - Len(PushImage(Byte(2), obs.pre, 0)))]
    /\ Ran(54) =>
        /\ PushedDown(PushImage(Byte(2), PreAt(2), obs.pre.reg.s),
                      obs.pre.reg.u)
        /\ cpu.reg =
            [PreAt(2).reg EXCEPT
                !.u = Wrap16(@ - Len(PushImage(Byte(2), obs.pre, 0)))]

\* a PSHU of all eight registers: 12 bytes, 17 cycles
C24_PshuAll ==
    /\ Ran(54)
    /\ Byte(2) = 255
    /\ cpu.reg.u = StackU - 12
    /\ cpu.cycles = obs.pre.cycles + 17
    /\ WordAt(StackU - 4) = StackS
    /\ mem_read(bus, StackU - 12) = obs.pre.reg.cc

\* the last call was a step that executed the push opcode psh, and the
\* host has at most overwritten registers since
Pushed(psh) ==
    /\ obs.op \in {"step", "poke"}
    /\ obs.ev = "exec"
    /\ Byte(1) = psh

\* the step being taken executes the pull of the push the last call made:
\* the same mask, and the stack pointer (before the push, now as the
\* pull starts) where the push left it
PullsBack(psh, before, now) ==
    /\ obs'.op = "step"
    /\ obs'.ev = "exec"
    /\ obs'.log[1][3] = psh + 1
    /\ obs'.log[2][3] = Byte(2)
    /\ now = Wrap16(before - Len(PushImage(Byte(2), obs.pre, 0)))

\* after the step being taken every register the mask of the push selects
\* (w: the other stack pointer) holds what it held before the push
Restored(w) ==
    /\ TestBit(Byte(2), 1) => cpu'.reg.cc = obs.pre.reg.cc
    /\ TestBit(Byte(2), 2) => reg_a(cpu'.reg) = reg_a(obs.pre.reg)
    /\ TestBit(Byte(2), 4) => reg_b(cpu'.reg) = reg_b(obs.pre.reg)
    /\ TestBit(Byte(2), 8) => cpu'.reg.dp = obs.pre.reg.dp
    /\ TestBit(Byte(2), 16) => cpu'.reg.x = obs.pre.reg.x
    /\ TestBit(Byte(2), 32) => cpu'.reg.y = obs.pre.reg.y
    /\ TestBit(Byte(2), 64) => w
    /\ TestBit(Byte(2), 128) => cpu'.reg.pc = PreAt(2).reg.pc

\* C23: for every mask, a PSHS followed by the PULS of the same mask, the
\* registers overwritten in between or not but the stack pointer and the
\* stack bytes left alone, restores every selected register and S; so do
\* PSHU and PULU with U as the stack pointer and S in the place of U.
C23_PullRestoresPush ==
    [][/\ (Pushed(52) /\ PullsBack(52, obs.pre.reg.s, obs'.pre.reg.s))
            => /\ cpu'.reg.s = obs.pre.reg.s
               /\ Restored(cpu'.reg.u = obs.pre.reg.u)
       /\ (Pushed(54) /\ PullsBack(54, obs.pre.reg.u, obs'.pre.reg.u))
            => /\ cpu'.reg.u = obs.pre.reg.u
               /\ Restored(cpu'.reg.s = obs.pre.reg.s)]_vars

\* a PULS of all registers but PC that found D, X, Y, U, DP and CC
\* overwritten and S where the PSHS had left it
C23_PulledAfterOverwrite ==
    /\ Ran(53)
    /\ Byte(2) = 127
    /\ obs.pre.reg = [Regs(0, 0, 0, 4660, StackS - 10, 0, 0)
                        EXCEPT !.pc = Org + 2]
    /\ cpu.reg = [RegsCc(42) EXCEPT !.pc = Org + 4]


\* the call opcodes and the length of their instructions: BSR, LBSR, JSR
\* direct, JSR indexed with the post-byte ,X and JSR extended
CallLen(op) ==
    CASE op = 141 -> 2
      [] op = 23 -> 3
      [] op = 157 -> 2
      [] op = 173 -> 2
      [] op = 189 -> 3

\* the address the call the last call executed jumps to
CallTarget ==
    CASE Byte(1) = 141 -> Wrap16(PreAt(2).reg.pc + SignExt8(Byte(2)))
      [] Byte(1) = 23 -> Wrap16(PreAt(3).reg.pc + 256 * Byte(2) + Byte(3))
      [] Byte(1) = 157 -> 256 * obs.pre.reg.dp + Byte(2)
      [] Byte(1) = 173 -> obs.pre.reg.x
      [] Byte(1) = 189 -> 256 * Byte(2) + Byte(3)

\* a step executed a call, and the host has at most overwritten registers
\* since
Called ==
    /\ obs.op \in {"step", "poke"}
    /\ obs.ev = "exec"
    /\ Byte(1) \in {141, 23, 157, 173, 189}
    /\ Byte(1) = 173 => Byte(2) = 132

\* the return address of the call
ReturnAddress == PreAt(CallLen(Byte(1))).reg.pc

\* C25: BSR, LBSR and JSR (direct, indexed, extended) push the address of
\* the following instruction big-endian (S falls by 2, the high byte lies
\* at the new S) and set PC to the target; an RTS that follows with the
\* stack untouched sets PC to that return address and S to what it was
\* before the call.
C25_CallAndReturn ==
    [][/\ (Called /\ obs.op = "step")' =>
            /\ cpu'.reg.s = Wrap16(obs'.pre.reg.s - 2)
            /\ mem_read(bus', cpu'.reg.s) = Hi(ReturnAddress')
            /\ mem_read(bus', Wrap16(cpu'.reg.s + 1)) = Lo(ReturnAddress')
            /\ cpu'.reg.pc = CallTarget'
       /\ (/\ Called
           /\ obs'.op = "step" /\ obs'.ev = "exec" /\ obs'.log[1][3] = 57
           /\ obs'.pre.reg.s = Wrap16(obs.pre.reg.s - 2))
            => /\ cpu'.reg.pc = ReturnAddress
               /\ cpu'.reg.s = obs.pre.reg.s]_vars

\* the RTS of a backward BSR, taken after the host overwrote the registers
\* but S, has returned
C25_ReturnedFromBsrBack ==
    /\ Ran(57)
    /\ obs.pre.reg.pc = Org + 2
    /\ obs.pre.reg.d = 42405
    /\ cpu.reg.pc = Org + 5
    /\ cpu.reg.s = StackS

\* C26: for an indexed post-byte with bit 7 set and sub-mode 7, 10 or 14
\* (with or without the indirect bit) or sub-mode 15 without the indirect
\* bit, the decoder returns the effective address 0 and 0 extra cycles,
\* changes no index register and does not stop the CPU: LEAX loads X with
\* 0, LDA reads the byte at address 0, each in its 4 base cycles.
C26_IllegalPostDegrades ==
    (Executed /\ Byte(1) \in {48, 166} /\ IllegalPost(Byte(2))) =>
        /\ cpu.cycles = obs.pre.cycles + PAGE0_CYCLES[Byte(1) + 1]
        /\ Byte(1) = 48 => cpu.reg.x = 0
        /\ Byte(1) = 166 =>
            /\ obs.log[Len(obs.log)] = <<"r", 0, reg_a(cpu.reg)>>
            /\ cpu.reg.x = obs.pre.reg.x
        /\ cpu.reg.y = obs.pre.reg.y
        /\ cpu.reg.u = obs.pre.reg.u
        /\ cpu.reg.s = obs.pre.reg.s
        /\ ~cpu.halted

\* the address of the extended operand of the last call
Extended == 256 * Byte(2) + Byte(3)

\* C27: read_word(a) is (read(a) << 8) | read((a + 1) mod 65536) and
\* write_word(a, v) stores the high byte of v at a and the low byte at
\* (a + 1) mod 65536, so that a read_word that follows a write_word at the
\* same address returns v, for every a, 0xFFFF included.  (STX >a makes
\* the write_word, LDD >a the read_word.)
C27_WordAccess ==
    [][/\ Ran(191)' =>
            /\ obs'.log[4] = <<"w", Extended', Hi(cpu'.reg.x)>>
            /\ obs'.log[5] = <<"w", (Extended' + 1) % 65536, Lo(cpu'.reg.x)>>
            /\ Len(obs'.log) = 5
       /\ Ran(252)' =>
            /\ obs'.log[4] = <<"r", Extended', mem_read(bus', Extended')>>
            /\ obs'.log[5] =
                <<"r", (Extended' + 1) % 65536,
                  mem_read(bus', (Extended' + 1) % 65536)>>
            /\ cpu'.reg.d = obs'.log[4][3] * 256 + obs'.log[5][3]
       /\ (/\ obs.op \in {"step", "poke"} /\ obs.ev = "exec" /\ Byte(1) = 191
           /\ Ran(252)' /\ Extended' = Extended)
            => cpu'.reg.d = obs.pre.reg.x]_vars

\* a word written at 0xFFFF and read back after the host overwrote the
\* registers: its low byte lies at 0x0000
C27_WordAtTopOfMemory ==
    /\ Ran(252)
    /\ Extended = 65535
    /\ obs.pre.reg.x = 0
    /\ cpu.reg.d = 4660
    /\ mem_read(bus, 0) = 52
    /\ mem_read(bus, 65535) = 18

\* the last call was a step that executed TST, INC or DEC on A, B or a
\* byte in memory (direct, indexed, extended)
RanFrameOp ==
    /\ Executed
    /\ Byte(1) % 16 \in FrameColumns
    /\ Byte(1) \div 16 \in {0, 4, 5, 6, 7}

\* C29: TST, INC and DEC, in their register forms (A, B) and their memory
\* forms (direct, indexed, extended), never change C: of the condition
\* codes they modify only N, Z and V.
C29_CarryKept ==
    RanFrameOp =>
        /\ carry(cpu.reg.cc) = carry(obs.pre.reg.cc)
        /\ BitAnd(cpu.reg.cc, 255 - CC_N - CC_Z - CC_V)
            = BitAnd(obs.pre.reg.cc, 255 - CC_N - CC_Z - CC_V)

\* an INC of the byte 0xFF in memory, entered with C set alone: the byte
\* wraps to 0, Z is set and C is still set
C29_IncWrapsWithCarrySet ==
    /\ Ran(124)
    /\ obs.pre.reg.cc = CC_C
    /\ cpu.reg.cc = CC_C + CC_Z
    /\ mem_read(bus, Org + 4) = 0
    /\ obs.log[4] = <<"r", Org + 4, 255>>

\* the register codes of TFR and EXG: 0..5 name the 16-bit registers D, X,
\* Y, U, S, PC and 8..11 the 8-bit registers A, B, CC, DP; the other codes
\* are undefined and count as 8-bit
Wide16(code) == code \in 0..5
Known(code) == code \in (0..5) \cup (8..11)

\* the value the register file r holds for the code
RegOf(r, code) ==
    CASE code = 0 -> r.d [] code = 1 -> r.x [] code = 2 -> r.y
      [] code = 3 -> r.u [] code = 4 -> r.s [] code = 5 -> r.pc
      [] code = 8 -> r.d \div 256 [] code = 9 -> r.d % 256
      [] code = 10 -> r.cc [] code = 11 -> r.dp
      [] OTHER -> 255

\* the codes that share bits with code: D and its halves A and B
Overlap(code) ==
    {code} \cup (IF code = 0 THEN {8, 9} ELSE {})
           \cup (IF code \in {8, 9} THEN {0} ELSE {})

\* the sentinel a register of the code's size receives on a size mismatch
Sentinel(code) == IF Wide16(code) THEN 65535 ELSE 255

\* the source and destination codes of the last call's post-byte
Src == Byte(2) \div 16
Dst == Byte(2) % 16

\* the last call left every register alone that shares no bits with the
\* codes in the set touched
Untouched(touched) ==
    \A code \in (0..5) \cup (8..11) :
        (Overlap(code) \cap touched = {}) =>
            RegOf(cpu.reg, code) = RegOf(PreAt(2).reg, code)

\* C30: TFR copies the source into the destination and leaves the source
\* as it was when both codes have the same size, and EXG swaps them; when
\* the sizes differ TFR writes 0xFF (8-bit) or 0xFFFF (16-bit) to the
\* destination and EXG writes those values to both registers; an undefined
\* code reads as 0xFF, and a write to it is ignored.  No other register
\* changes.
C30_TransferAndExchange ==
    /\ Ran(31) =>
        /\ Known(Dst) =>
            RegOf(cpu.reg, Dst) =
                IF Wide16(Src) = Wide16(Dst)
                THEN RegOf(PreAt(2).reg, Src)
                ELSE Sentinel(Dst)
        /\ Untouched({Dst})
    /\ Ran(30) =>
        /\ Known(Dst) =>
            RegOf(cpu.reg, Dst) =
                IF Wide16(Src) = Wide16(Dst)
                THEN RegOf(PreAt(2).reg, Src)
                ELSE Sentinel(Dst)
        /\ Known(Src) =>
            RegOf(cpu.reg, Src) =
                IF Wide16(Src) = Wide16(Dst)
                THEN RegOf(PreAt(2).reg, Dst)
                ELSE Sentinel(Src)
        /\ Untouched({Src, Dst})

\* an EXG of Y with A: the sizes differ, Y holds 0xFFFF and A 0xFF
C30_ExgYWithA ==
    /\ Ran(30)
    /\ Byte(2) = 40
    /\ cpu.reg.y = 65535
    /\ cpu.reg.d = 65314
    /\ cpu.reg.x = 13124

(***************************************************************************)
(* The counting loop of tests/cpu_tests.rs (counting_loop): the host sets  *)
(* S and steps until PC is the target of the SWI vector.  The host's loop  *)
(* calls step again and again, so its rounds are weakly fair.              *)
(***************************************************************************)
\* CLRB; loop: INCB; CMPB #n; BNE loop; SWI
ProgLoop(n) == <<95, 92, 193, n, 38, 251, 63>>

\* `cpu.reg.s = 0x8000;`
with_s(m, s) == [m EXCEPT !.cpu.reg.s = s]

\* the operands n of CMPB the loop is run with
LoopBounds == 1..(U8 - 1)

InitLoop ==
    \E n \in LoopBounds :
        Loaded(with_s(setup(ProgLoop(n)), StackS))

\* `cpu.step(&mut bus); if cpu.reg.pc == 0xFF00 { break; }`, with the
\* steps counted in call.steps
StepLoop ==
    /\ cpu.reg.pc # WordAt(VEC_SWI)
    /\ Stepped(step(Machine))
    /\ call' = [call EXCEPT !.steps = @ + 1]

\* the host's loop goes round once more.  step returns for every state, so
\* StepLoop is enabled exactly when the loop has not been left, and it is
\* the only action: every round of the loop is a StepLoop step
HostLoops ==
    /\ cpu.reg.pc # WordAt(VEC_SWI)
    /\ call' = [call EXCEPT !.steps = @ + 1]

SpecLoop == InitLoop /\ [][StepLoop]_vars /\ WF_call(HostLoops)

\* the operand n of the loop's CMPB
LoopBound == ImageByte(bus.img, Org + 3)

\* the loop has reached the target of the SWI vector with B = n, after
\* CLRB, n passes through INCB, CMPB and BNE, and SWI
LoopDone ==
    /\ cpu.reg.pc = WordAt(VEC_SWI)
    /\ reg_b(cpu.reg) = LoopBound
    /\ call.steps = 3 * LoopBound + 2

\* C28: the counting loop CLRB; INCB; CMPB #n; BNE back to INCB; SWI, run
\* from reset by repeated step, eventually reaches the target of the SWI
\* vector, and does so with B = n after the loop body has run exactly n
\* times, for every n in 1..255.
C28_CountingLoopEnds == <>LoopDone

\* the loop of the test, n = 10, has reached the SWI handler
C28_CountedToTen ==
    /\ LoopDone
    /\ LoopBound = 10
    /\ Ran(63)
    /\ cpu.cycles = 2 + 10 * 7 + 19

(***************************************************************************)
(* The decoding specification: the instruction-level host without the     *)
(* register overwrites, on the cases of the branch, addressing and        *)
(* read-modify-write claims.                                               *)
(***************************************************************************)
\* lbeq_taken, lbeq_not_taken: a branch forward over a RESET onto a RESET,
\* and (behind a BRA) a branch backward onto a RESET; op is the opcode
\* (with its page prefix) and off the offset bytes for the forward branch
BranchForward(op, n) ==
    op \o (IF n = 1 THEN <<1>> ELSE <<0, 1>>) \o <<62, 62>>
BranchBackward(op, n) ==
    <<32, 1, 62>> \o op
        \o (IF n = 1 THEN <<256 - Len(op) - 2>>
            ELSE <<255, 256 - Len(op) - 3>>)
        \o <<62>>

\* BRA, BRN, LBRA, LBRN and the fourteen long conditional branches, each
\* with every value of N, Z, V and C
CasesBranch ==
    {Case(BranchForward(b.op, b.n), RegsCc(cc)) :
        b \in {[op |-> <<32>>, n |-> 1], [op |-> <<33>>, n |-> 1],
               [op |-> <<22>>, n |-> 2]}
              \cup {[op |-> <<16, o>>, n |-> 2] : o \in 33..47},
        cc \in 0..15}
    \cup
    {Case(BranchBackward(b.op, b.n), RegsCc(cc)) :
        b \in {[op |-> <<32>>, n |-> 1], [op |-> <<33>>, n |-> 1],
               [op |-> <<22>>, n |-> 2]}
              \cup {[op |-> <<16, o>>, n |-> 2] : o \in 33..47},
        cc \in 0..15}

\* the number of offset bytes that follow the indexed post-byte
OffsetBytes(post) ==
    IF post < 128 THEN 0
    ELSE CASE post % 16 \in {8, 12} -> 1
           [] post % 16 \in {9, 13, 15} -> 2
           [] OTHER -> 0

\* the indexed post-bytes that are not undefined: C26 has the others
DefinedPost(post) ==
    \/ post < 128
    \/ post % 16 \in {0, 1, 2, 3, 4, 5, 6, 8, 9, 11, 12, 13}
    \/ post % 16 = 15 /\ TestBit(post, 16)

\* the data the index registers of the cases point into
Data == [i \in 1..112 |-> (37 * i + 11) % 256]

\* lda_indexed_postinc2: LEAX or LEAY with the post-byte post and the
\* offset bytes off, RESET, and from Org + 8 on the data
ProgLea(op, post, off) ==
    <<op, post>> \o SubSeq(off, 3 - OffsetBytes(post), 2)
        \o SubSeq(<<62, 62, 62, 62, 62, 62>>, 1, 6 - OffsetBytes(post))
        \o Data

\* every defined post-byte, with a small positive and a small negative
\* offset in the offset bytes and in A, B and D; X, Y, U and S point into
\* the data
CasesIndexed ==
    {Case(ProgLea(op, post, v.off),
          Regs(v.d, Org + 40, Org + 56, Org + 72, Org + 88, 23, 42)) :
        op \in {48, 49},
        post \in {p \in 0..255 : DefinedPost(p)},
        v \in {[off |-> <<0, 37>>, d |-> 258],
               [off |-> <<255, 249>>, d |-> 65276]}}

\* the columns of the opcode map that hold NEG, COM, LSR, ROR, ASR, ASL,
\* ROL, DEC, INC, TST and CLR
RmwColumns == {0, 3, 4, 6, 7, 8, 9, 10, 12, 13, 15}

\* inc_direct: a read-modify-write instruction, RESET, and at Org + 16
\* the byte val it works on
ProgRmw(ins, val) ==
    ins \o SubSeq(<<62, 62, 62, 62, 62, 62, 62, 62, 62, 62, 62, 62, 62, 62,
                    62, 62>>, 1, 16 - Len(ins)) \o <<val>>

\* the operand bytes that address Org + 16 with DP = 4 and X = Org + 11:
\* direct, ,X with a 5-bit, an 8-bit and a 16-bit offset, extended
RmwOperands(row) ==
    CASE row = 0 -> {<<16>>}
      [] row = 6 -> {<<5>>, <<136, 5>>, <<137, 0, 5>>}
      [] row = 7 -> {<<4, 16>>}

CasesRmw ==
    UNION {{Case(ProgRmw(<<16 * row + col>> \o operand, val),
                 Regs(258, Org + 11, 0, StackU, StackS, 4, cc)) :
              col \in RmwColumns, operand \in RmwOperands(row),
              val \in {0, 1, 127, 128, 255}, cc \in {0, 1}} :
           row \in {0, 6, 7}}

CasesDecode == CasesBranch \cup CasesIndexed \cup CasesRmw

InitDecode ==
    \E c \in CasesDecode :
        Loaded(with_regs(setup(c.prog), c.reg))

SpecDecode == InitDecode /\ [][Step]_vars

\* the last call was a step that executed the page-1 opcode op
Ran1(op) == Executed /\ Byte(1) = 16 /\ Byte(2) = op

\* the PC n bytes behind the instruction of the last call, moved by the
\* 16-bit offset off
Rel(n, off) == Wrap16(obs.pre.reg.pc + n + off)

\* C31: BRA and LBRA always set PC to the target; BRN and LBRN never
\* branch but consume their 1- or 2-byte operand and cost 3 and 5 cycles;
\* a long conditional branch costs 5 cycles when not taken and 6 when
\* taken, and its target is the PC after the operand plus the 16-bit
\* offset modulo 65536.
C31_Branches ==
    /\ Ran(32) => cpu.reg.pc = Rel(2, SignExt8(Byte(2)))
    /\ Ran(22) => cpu.reg.pc = Rel(3, 256 * Byte(2) + Byte(3))
    /\ Ran(33) =>
        /\ cpu.reg.pc = Rel(2, 0)
        /\ Len(obs.log) = 2
        /\ cpu.cycles = obs.pre.cycles + 3
    /\ Ran1(33) =>
        /\ cpu.reg.pc = Rel(4, 0)
        /\ Len(obs.log) = 4
        /\ cpu.cycles = obs.pre.cycles + 5
    /\ (Executed /\ Byte(1) = 16 /\ Byte(2) \in 34..47) =>
        /\ Len(obs.log) = 4
        /\ \/ /\ cpu.reg.pc = Rel(4, 0)
              /\ cpu.cycles = obs.pre.cycles + 5
           \/ /\ cpu.reg.pc = Rel(4, 256 * Byte(3) + Byte(4))
              /\ cpu.cycles = obs.pre.cycles + 6

\* an LBEQ backward, taken with Z set, in 6 cycles
C31_LbeqTakenBackward ==
    /\ Ran1(39)
    /\ zero(obs.pre.reg.cc)
    /\ obs.pre.reg.pc = Org + 3
    /\ cpu.reg.pc = Org + 2
    /\ cpu.cycles = obs.pre.cycles + 6

\* the number of reads among the bus accesses of the last call
Reads == Cardinality({i \in 1..Len(obs.log) : obs.log[i][1] = "r"})

\* the last call idled one cycle in SYNC: no bus access, nothing but
\* cycles changed
IdledOnce ==
    /\ obs.pre.sync
    /\ obs.log = <<>>
    /\ obs.ret = 1
    /\ cpu = [obs.pre EXCEPT !.cycles = @ + 1]

\* the last call dispatched one interrupt: it fetched no opcode, its only
\* reads are the two bytes of one vector, which PC now holds, and what it
\* pushed before them starts with the PC the call found, low byte first
DispatchedOnce ==
    /\ Reads = 2
    /\ obs.log[Len(obs.log) - 1][2] = TakenVector
    /\ obs.log[Len(obs.log)][2] = TakenVector + 1
    /\ cpu.reg.pc = 256 * Byte(Len(obs.log) - 1) + Byte(Len(obs.log))
    /\ Len(obs.log) \in {2, 5, 14}
    /\ Len(obs.log) = 2 <=> obs.pre.cwai
    /\ Len(obs.log) > 2 =>
        /\ obs.log[1] = <<"w", Wrap16(obs.pre.reg.s - 1), Lo(obs.pre.reg.pc)>>
        /\ obs.log[2] = <<"w", Wrap16(obs.pre.reg.s - 2), Hi(obs.pre.reg.pc)>>
    /\ cpu.nmi_pending = (obs.pre.nmi_pending /\ obs.ev # "nmi")

\* the last call fetched the opcode at the PC it found and dispatched no
\* interrupt
ExecutedOnce ==
    /\ Len(obs.log) >= 1
    /\ obs.log[1][1] = "r"
    /\ obs.log[1][2] = obs.pre.reg.pc
    /\ cpu.nmi_pending = obs.pre.nmi_pending
    /\ obs.ret = cpu.cycles - obs.pre.cycles

\* C32: every step of a Cpu that is not halted does exactly one of three
\* things: it idles one cycle in SYNC, it dispatches one interrupt, or it
\* fetches and executes one instruction; a step that dispatches fetches no
\* opcode, and the PC it pushes is the address of the next instruction,
\* not yet executed.
C32_StepDoesOneThing ==
    StepRan =>
        /\ obs.ev \in {"idle", "nmi", "firq", "irq", "exec"}
        /\ obs.ev = "idle" => IdledOnce
        /\ Dispatched => DispatchedOnce
        /\ obs.ev = "exec" => ExecutedOnce
        /\ Dispatched => (obs.log[1][1] = "r" => obs.log[1][2] # obs.pre.reg.pc)

\* an NMI dispatched by the step that leaves SYNC with the FIRQ and IRQ
\* lines asserted as well: one vector read, no opcode fetched
C32_OneDispatchOfThree ==
    /\ Dispatched
    /\ obs.ev = "nmi"
    /\ obs.pre.sync
    /\ obs.pre.firq_line /\ obs.pre.irq_line
    /\ Len(obs.log) = 14
    /\ cpu.reg.pc = WordAt(VEC_NMI)

(***************************************************************************)
(* The run specification: the host calls run with a budget, on the        *)
(* programs of the tests and on a memory that holds the page-1 prefix     *)
(* 0x10 in every byte.  The while loop of run goes round as long as its   *)
(* condition holds and returns when it fails: both are weakly fair.       *)
(* call.steps alternates between 0 and 1 here instead of counting, so     *)
(* that a run that does not return stays within finitely many states.     *)
(***************************************************************************)
\* a memory holding 0x10 in every byte, the vectors included
ImagePrefixes ==
    [org |-> Org, code |-> <<>>,
     vecs |-> <<16, 16, 16, 16, 16, 16, 16, 16, 16, 16, 16, 16, 16, 16>>,
     fill |-> 16]

\* Cpu::new and reset on the memory img
boot(img) ==
    reset([cpu |-> Cpu_new, bus |-> [img |-> img, ram |-> <<>>],
           log |-> <<>>])

InitRun ==
    \E img \in {ImagePrefixes, MkImage(ProgBare), MkImage(ProgRegs),
                MkImage(ProgIllegal)} :
        Loaded(boot(img))

\* Cpu::run, one iteration of the while loop
RunLoop ==
    /\ call.running
    /\ cpu.cycles < call.target /\ ~cpu.halted
    /\ Stepped(step(Machine))
    /\ call' = [call EXCEPT !.steps = 1 - @]

\* the while loop of run goes round once more.  step returns for every
\* state, so RunLoop is enabled exactly when the loop condition holds, and
\* it is the only action that changes call.steps while run is in progress
RunTurns ==
    /\ call.running
    /\ cpu.cycles < call.target /\ ~cpu.halted
    /\ call' = [call EXCEPT !.steps = 1 - @]

NextRun ==
    \/ \E cycle_budget \in 0..MaxBudget : RunBegin(cycle_budget)
    \/ RunLoop
    \/ RunEnd

SpecRun ==
    InitRun /\ [][NextRun]_vars /\ WF_call(RunTurns) /\ WF_vars(RunEnd)

\* C33: run terminates: for every memory image, every reachable state of
\* the Cpu and every finite budget, run returns after finitely many step
\* calls.
C33_RunReturns == call.running ~> ~call.running

\* the last call executed LEAX or LEAY with an indexed post-byte
RanLea == Executed /\ Byte(1) \in {48, 49}

\* the sub-mode of the post-byte of the last call and its indirect bit
SubMode == Byte(2) % 16
IndirectBit == Byte(2) >= 128 /\ TestBit(Byte(2), 16)

\* X, Y, U or S of the registers reg, by the number k of bits 6-5
Pointer(reg, k) ==
    CASE k = 0 -> reg.x
      [] k = 1 -> reg.y
      [] k = 2 -> reg.u
      [] k = 3 -> reg.s

\* the register the post-byte of the last call selects, before the call
Selected == Pointer(obs.pre.reg, (Byte(2) \div 32) % 4)

\* the offsets of the post-byte of the last call: the 5-bit one, the
\* 8-bit one and the 16-bit one, as 16-bit two's complement
Off5 == IF Byte(2) % 32 >= 16 THEN (Byte(2) % 32) + 65504 ELSE Byte(2) % 32
Off8 == SignExt8(Byte(3))
Off16 == 256 * Byte(3) + Byte(4)

\* the row of the indexed table for the post-byte of the last call: the
\* address before any indirection and the extra cycles
TableRow ==
    LET r == obs.pre.reg
        after == r.pc + 2 + OffsetBytes(Byte(2))
        Row(ea, extra) == [ea |-> Wrap16(ea), extra |-> extra]
    IN  IF Byte(2) < 128 THEN Row(Selected + Off5, 1)
        ELSE CASE SubMode = 0 -> Row(Selected, 2)
               [] SubMode = 1 -> Row(Selected, 3)
               [] SubMode = 2 -> Row(Selected + 65535, 2)
               [] SubMode = 3 -> Row(Selected + 65534, 3)
               [] SubMode = 4 -> Row(Selected, 0)
               [] SubMode = 5 -> Row(Selected + SignExt8(Lo(r.d)), 1)
               [] SubMode = 6 -> Row(Selected + SignExt8(Hi(r.d)), 1)
               [] SubMode = 8 -> Row(Selected + Off8, 1)
               [] SubMode = 9 -> Row(Selected + Off16, 4)
               [] SubMode = 11 -> Row(Selected + r.d, 4)
               [] SubMode = 12 -> Row(after + Off8, 1)
               [] SubMode = 13 -> Row(after + Off16, 5)
               [] OTHER -> Row(Off16, 2)

\* the row with the indirect bit applied: the big-endian word at the
\* address, 3 cycles more
TableIndirect ==
    IF IndirectBit
    THEN [ea |-> WordAt(TableRow.ea), extra |-> TableRow.extra + 3]
    ELSE TableRow

\* what an auto-increment or auto-decrement adds to the selected register
AutoStep ==
    IF Byte(2) < 128 THEN 0
    ELSE CASE SubMode = 0 -> 1
           [] SubMode = 1 -> 2
           [] SubMode = 2 -> 65535
           [] SubMode = 3 -> 65534
           [] OTHER -> 0

\* the LEA of the last call decoded its post-byte to the address ea in
\* extra cycles: the destination (X for 0x30, Y for 0x31) holds ea, the
\* selected register moved by the auto step, nothing else moved
Decoded(ea, extra) ==
    /\ cpu.cycles = obs.pre.cycles + 4 + extra
    /\ cpu.reg.pc = Wrap16(obs.pre.reg.pc + 2 + OffsetBytes(Byte(2)))
    /\ \A k \in 0..3 :
        Pointer(cpu.reg, k) =
            IF k = Byte(1) - 48 THEN ea
            ELSE IF k = (Byte(2) \div 32) % 4
                 THEN Wrap16(Pointer(obs.pre.reg, k) + AutoStep)
                 ELSE Pointer(obs.pre.reg, k)
    /\ cpu.reg.d = obs.pre.reg.d
    /\ cpu.reg.dp = obs.pre.reg.dp

\* C34: for every legal indexed post-byte the decoder returns the
\* effective address and the extra cycles of the table (5-bit offset 1,
\* ,R+ 2, ,R++ 3, ,-R 2, ,--R 3, ,R 0, B,R and A,R 1, n8,R 1, n16,R 4,
\* D,R 4, n8,PC 1, n16,PC 5 from the PC after the offset bytes); auto
\* modes change only the selected register, by 1 or 2; the indirect bit on
\* a mode that allows it replaces the address by the big-endian word
\* there and adds 3 cycles; [n16] costs 5 in total.
C34_IndexedTable ==
    (RanLea /\ ~(IndirectBit /\ SubMode \in {0, 2})) =>
        Decoded(TableIndirect.ea, TableIndirect.extra)

\* LEAY [-7,X] with a 16-bit offset: the word at X - 7, 7 extra cycles
C34_IndirectWordOffset ==
    /\ Ran(49)
    /\ Byte(2) = 153
    /\ Byte(3) = 255
    /\ cpu.reg.y = WordAt(Org + 33)
    /\ cpu.reg.y # Org + 33
    /\ cpu.cycles = obs.pre.cycles + 11

\* C35: the single-step auto modes have no indirect variant: for ,R+
\* (sub-mode 0) and ,-R (sub-mode 2) the decoder never dereferences, the
\* address is the register-derived one and the extra cycles are 2
\* whatever bit 4 is.
C35_SingleStepNeverIndirect ==
    (RanLea /\ Byte(2) >= 128 /\ SubMode \in {0, 2}) =>
        /\ Decoded(TableRow.ea, 2)
        /\ Len(obs.log) = 2

\* the last call executed a memory instruction of the read-modify-write
\* rows (direct 0x0, indexed 0x6, extended 0x7) in column col
RanRmw(col) ==
    Executed /\ Byte(1) \div 16 \in {0, 6, 7} /\ Byte(1) % 16 = col

\* the bytes the instruction of the last call takes: opcode and operand
RmwLen ==
    CASE Byte(1) \div 16 = 0 -> 2
      [] Byte(1) \div 16 = 6 -> 2 + OffsetBytes(Byte(2))
      [] Byte(1) \div 16 = 7 -> 3

\* the effective address of the instruction of the last call
RmwAddr ==
    CASE Byte(1) \div 16 = 0 -> 256 * obs.pre.reg.dp + Byte(2)
      [] Byte(1) \div 16 = 6 -> TableRow.ea
      [] Byte(1) \div 16 = 7 -> Extended

\* the first bus accesses of the last call fetched the instruction: reads
\* of consecutive addresses from the PC on
Fetched ==
    /\ Len(obs.log) >= RmwLen
    /\ \A i \in 1..RmwLen :
        /\ obs.log[i][1] = "r"
        /\ obs.log[i][2] = Wrap16(obs.pre.reg.pc + i - 1)

\* after the fetches the last call read the effective address once and
\* then wrote the result there once
ReadThenWrote ==
    /\ Fetched
    /\ Len(obs.log) = RmwLen + 2
    /\ obs.log[RmwLen + 1][1] = "r"
    /\ obs.log[RmwLen + 1][2] = RmwAddr
    /\ obs.log[RmwLen + 2][1] = "w"
    /\ obs.log[RmwLen + 2][2] = RmwAddr
    /\ obs.log[RmwLen + 2][3] = mem_read(bus, RmwAddr)

\* after the fetches the last call read the effective address once and
\* wrote nothing
ReadOnly ==
    /\ Fetched
    /\ Len(obs.log) = RmwLen + 1
    /\ obs.log[RmwLen + 1][1] = "r"
    /\ obs.log[RmwLen + 1][2] = RmwAddr

\* after the fetches the last call wrote 0 to the effective address
\* without reading it
WroteOnly ==
    /\ Fetched
    /\ Len(obs.log) = RmwLen + 1
    /\ obs.log[RmwLen + 1] = <<"w", RmwAddr, 0>>
    /\ mem_read(bus, RmwAddr) = 0

\* C36 as stated: for every memory read-modify-write instruction (NEG,
\* COM, LSR, ROR, ASR, ASL, ROL, DEC, INC and CLR in direct, indexed and
\* extended form) the bus accesses of one step are, in order, the opcode
\* fetch, the operand or post-byte fetches, one read of the effective
\* address and one write of the result to the same address; TST reads the
\* address and never writes.
C36_ReadModifyWrite ==
    /\ \A col \in RmwColumns \ {13} : RanRmw(col) => ReadThenWrote
    /\ RanRmw(13) => ReadOnly

\* C36 amended: NEG, COM, LSR, ROR, ASR, ASL, ROL, DEC and INC read the
\* effective address once and then write the result there once, after the
\* fetches; TST reads it and never writes; CLR writes 0 there and never
\* reads it.
C36_ClrOnlyWrites ==
    /\ \A col \in RmwColumns \ {13, 15} : RanRmw(col) => ReadThenWrote
    /\ RanRmw(13) => ReadOnly
    /\ RanRmw(15) => WroteOnly

\* CLR 5,X with an 8-bit offset over a byte 0xFF: three fetches and one
\* write
C36_ClrIndexedOverFF ==
    /\ Ran(111)
    /\ Byte(2) = 136
    /\ obs.pre.reg.x = Org + 11
    /\ Len(obs.log) = 4
    /\ obs.log[4] = <<"w", Org + 16, 0>>
    /\ mem_read([bus EXCEPT !.ram = obs.mem], Org + 16) = 255

(***************************************************************************)
(* The arithmetic specifications: the host loads an accumulator            *)
(* instruction with an immediate operand, sets A and CC, and steps until   *)
(* the PC leaves the program.                                              *)
(***************************************************************************)
\* every byte
Bytes == 0..(U8 - 1)

\* the registers of an arithmetic case: A = a, B = b, DP = dp, flags cc
RegsAlu(a, b, dp, cc) == Regs(256 * a + b, 0, 0, StackU, StackS, dp, cc)

\* `cpu.step(&mut bus)` while the PC is inside the loaded program, which
\* ends where the handlers begin
StepProgram ==
    /\ cpu.reg.pc >= Org
    /\ cpu.reg.pc < Org + Len(bus.img.code) - Len(Handlers)
    /\ Stepped(step(Machine))
    /\ UNCHANGED call

\* adda_immediate: ADDA #b (0x8B) and ADCA #b (0x89) for every a and b,
\* with every flag clear and with every flag set
InitAdd ==
    \E op \in {137, 139}, a \in Bytes, b \in Bytes, cc \in {0, 255} :
        Loaded(with_regs(setup(<<op, b>>), RegsAlu(a, 0, 0, cc)))

SpecAdd == InitAdd /\ [][StepProgram]_vars

\* 1 for TRUE, 0 for FALSE
Bit(p) == IF p THEN 1 ELSE 0

\* A before and after the last call, and the carry before it
OldA == Hi(obs.pre.reg.d)
NewA == Hi(cpu.reg.d)
OldC == obs.pre.reg.cc % 2

\* the last call set C, V, Z, N to c, v, z, n and left I, F and E alone
FlagsCVZN(c, v, z, n) ==
    /\ cpu.reg.cc % 16 = Bit(c) + 2 * Bit(v) + 4 * Bit(z) + 8 * Bit(n)
    /\ (cpu.reg.cc \div 16) % 2 = (obs.pre.reg.cc \div 16) % 2
    /\ cpu.reg.cc \div 64 = obs.pre.reg.cc \div 64

\* the half-carry flag of cc
FlagH(cc) == (cc \div 32) % 2 = 1

\* the last call added b and the carry-in cin to A
Added(b, cin) ==
    LET sum == OldA + b + cin
    IN  /\ NewA = sum % 256
        /\ FlagsCVZN(sum > 255,
                     (OldA >= 128) = (b >= 128) /\ (NewA >= 128) # (OldA >= 128),
                     NewA = 0, NewA >= 128)
        /\ FlagH(cpu.reg.cc) <=> (OldA % 16) + (b % 16) + cin > 15

\* C37: for all a and b in 0..255 and every carry-in, add8 and adc8 return
\* (a + b [+ C]) mod 256, set C iff the sum exceeds 255, Z iff the result
\* is 0, N to bit 7 of the result, V iff the operands have the same sign
\* and the result's sign differs, H iff there is a carry out of bit 3, and
\* leave I, F and E unchanged.
C37_AddFlags ==
    /\ Ran(139) => Added(Byte(2), 0)
    /\ Ran(137) => Added(Byte(2), OldC)

\* ADCA #0x80 to 0x7F with the carry set: 0x00, with C, Z and H set and V
\* clear
C37_AdcCarriesThrough ==
    /\ Ran(137)
    /\ OldA = 127
    /\ Byte(2) = 128
    /\ OldC = 1
    /\ NewA = 0
    /\ cpu.reg.cc = 245

\* suba_immediate, cmpa_immediate_flags: SUBA #b (0x80), CMPA #b (0x81) and
\* SBCA #b (0x82) for every a and b, with every flag clear and with every
\* flag set
InitSub ==
    \E op \in {128, 129, 130}, a \in Bytes, b \in Bytes, cc \in {0, 255} :
        Loaded(with_regs(setup(<<op, b>>), RegsAlu(a, 0, 0, cc)))

SpecSub == InitSub /\ [][StepProgram]_vars

\* the last call subtracted b and the borrow-in cin from A, set the flags
\* of the difference and left res in A
Subtracted(b, cin, res) ==
    LET diff == OldA - b - cin
        r == (diff + 512) % 256
    IN  /\ NewA = IF res THEN r ELSE OldA
        /\ FlagsCVZN(diff < 0,
                     (OldA >= 128) # (b >= 128) /\ (r >= 128) # (OldA >= 128),
                     r = 0, r >= 128)
        /\ FlagH(cpu.reg.cc) = FlagH(obs.pre.reg.cc)

\* C38: for all a and b in 0..255 and every carry-in, sub8 and sbc8 return
\* (a - b [- C]) mod 256, set C iff a borrow occurred (a < b, for sbc8
\* a < b + C), V iff the operands differ in sign and the result's sign
\* differs from a's, N and Z from the result, and leave H, I, F and E
\* unchanged; CMP sets the flags of SUB without changing the register.
C38_SubFlags ==
    /\ Ran(128) => Subtracted(Byte(2), 0, TRUE)
    /\ Ran(130) => Subtracted(Byte(2), OldC, TRUE)
    /\ Ran(129) => Subtracted(Byte(2), 0, FALSE)

\* SBCA #0x7F from 0x80 with the carry set: 0x00, Z and V set, no borrow
C38_SbcOverflowsToZero ==
    /\ Ran(130)
    /\ OldA = 128
    /\ Byte(2) = 127
    /\ OldC = 1
    /\ NewA = 0
    /\ cpu.reg.cc = 246

\* the packed-BCD bytes: both nibbles 0..9
Bcd == {16 * t + u : t \in 0..9, u \in 0..9}

\* daa_basic: ADDA #y or ADCA #y, then DAA (0x19), for all packed-BCD x in
\* A and y, with every flag clear and with every flag set; B keeps x and
\* DP the flags the case starts with.  And DAA alone for every A and every
\* value of H, V and C
InitDaa ==
    \/ \E op \in {137, 139}, x \in Bcd, y \in Bcd, cc \in {0, 255} :
        Loaded(with_regs(setup(<<op, y, 25>>), RegsAlu(x, x, cc, cc)))
    \/ \E a \in Bytes, h \in {0, 32}, v \in {0, 2}, c \in {0, 1} :
        Loaded(with_regs(setup(<<25>>), RegsAlu(a, 0, 0, h + v + c)))

SpecDaa == InitDaa /\ [][StepProgram]_vars

\* the decimal value of a packed-BCD byte
Decimal(b) == 10 * (b \div 16) + (b % 16)

\* the last call was the DAA that follows the addition of a case
RanDaaAfterAdd == Ran(25) /\ obs.pre.reg.pc = Org + 2

\* the decimal sum the addition and the DAA of a case stand for: x is in B,
\* y in the program, the carry-in is that of the flags in DP if the
\* addition was ADCA
DecimalSum ==
    Decimal(Lo(cpu.reg.d)) + Decimal(mem_read(bus, Org + 1))
        + (IF mem_read(bus, Org) = 137 THEN cpu.reg.dp % 2 ELSE 0)

\* what DAA adds to A: 0x06 iff H is set or the low nibble exceeds 9, 0x60
\* iff C is set or A exceeds 0x99
Correction ==
    (IF FlagH(obs.pre.reg.cc) \/ OldA % 16 > 9 THEN 6 ELSE 0)
        + (IF OldC = 1 \/ OldA > 153 THEN 96 ELSE 0)

\* C39: DAA completes a BCD addition: for all packed-BCD x and y and either
\* carry-in, daa applied to the result and the flags of add8 or adc8
\* yields the packed BCD of the decimal sum mod 100 and C = 1 iff the sum
\* is at least 100; it adds 0x06 iff H = 1 or the low nibble exceeds 9 and
\* 0x60 iff the old C = 1 or A exceeds 0x99, and leaves V unchanged.
C39_DaaCompletesBcd ==
    /\ RanDaaAfterAdd =>
        /\ NewA \in Bcd
        /\ Decimal(NewA) = DecimalSum % 100
        /\ cpu.reg.cc % 2 = Bit(DecimalSum >= 100)
    /\ Ran(25) =>
        /\ NewA = (OldA + Correction) % 256
        /\ (cpu.reg.cc \div 2) % 2 = (obs.pre.reg.cc \div 2) % 2

\* 99 + 99 + 1 = 199: ADCA leaves 0x33 with H and C, DAA makes it 0x99
\* with C
C39_NinetyNinePlusNinetyNine ==
    /\ RanDaaAfterAdd
    /\ Lo(cpu.reg.d) = 153
    /\ mem_read(bus, Org + 1) = 153
    /\ mem_read(bus, Org) = 137
    /\ cpu.reg.dp = 255
    /\ OldA = 51
    /\ NewA = 153
    /\ cpu.reg.cc % 2 = 1

====
